---- MODULE Spec2Model ----
(***************************************************************************)
(* A model of the deterministic rule engine of datajanitor                 *)
(* (lib/rules-engine: validators, RuleEngine.applyRow / applyChunk) and of *)
(* the custom validator registry (lib/custom-code-registry).               *)
(*                                                                         *)
(* Strings are sequences of one-character strings.  JavaScript values are  *)
(* records [t, s]: t is the type tag, s the characters of a string (or the *)
(* decimal digits of a number).                                            *)
(***************************************************************************)
EXTENDS Integers, Sequences, FiniteSets, TLC

\* ------------------------------------------------------------------------
\* Bounds of the model
\* ------------------------------------------------------------------------
\* longest input string enumerated for the validator specification
MaxStrLen == 2
\* longest rule set
MaxRules == 2
\* longest chunk handed to applyChunk
MaxRows == 2
\* longest allowed list and synonym map enumerated for the enum validator
MaxAllowed == 2
MaxSynonyms == 1

\* ------------------------------------------------------------------------
\* Values and strings
\* ------------------------------------------------------------------------
Undef == [t |-> "undefined", s |-> <<>>]
Null == [t |-> "null", s |-> <<>>]
Str(s) == [t |-> "string", s |-> s]
Num(digits) == [t |-> "number", s |-> digits]

\* characters the enumerated inputs are built from
Alphabet == {"a", "A", "c", " ", "@", "1"}

\* the sequences over S of length at most n
SeqsUpTo(S, n) == UNION {[1..k -> S] : k \in 0..n}

Strings == SeqsUpTo(Alphabet, MaxStrLen)

\* String.prototype.toLowerCase / toUpperCase, one character
LowerChar(c) ==
  CASE c = "A" -> "a" [] c = "C" -> "c" [] c = "U" -> "u" [] c = "S" -> "s" [] OTHER -> c
UpperChar(c) ==
  CASE c = "a" -> "A" [] c = "c" -> "C" [] c = "u" -> "U" [] c = "s" -> "S" [] OTHER -> c
toLowerCase(s) == [k \in 1..Len(s) |-> LowerChar(s[k])]
toUpperCase(s) == [k \in 1..Len(s) |-> UpperChar(s[k])]

\* String.prototype.trim
RECURSIVE trimStart(_)
trimStart(s) == IF s # <<>> /\ Head(s) = " " THEN trimStart(Tail(s)) ELSE s
RECURSIVE trimEnd(_)
trimEnd(s) ==
  IF s # <<>> /\ s[Len(s)] = " " THEN trimEnd(SubSeq(s, 1, Len(s) - 1)) ELSE s
trim(s) == trimEnd(trimStart(s))

\* String(v)
String(v) ==
  CASE v.t = "undefined" -> <<"u", "n", "d", "e", "f", "i", "n", "e", "d">>
    [] v.t = "null" -> <<"n", "u", "l", "l">>
    [] OTHER -> v.s

isEmptyNoTrim(v) == v = Undef \/ v = Null \/ String(v) = <<>>
isEmpty(v) == v = Undef \/ v = Null \/ trim(String(v)) = <<>>
toStr(v) == IF v = Undef \/ v = Null THEN <<>> ELSE String(v)
\* JavaScript truthiness of a value
Truthy(v) ==
  CASE v.t = "undefined" -> FALSE
    [] v.t = "null" -> FALSE
    [] v.t = "string" -> v.s # <<>>
    [] v.t = "number" -> v.s # <<"0">>
    [] OTHER -> TRUE

\* js-levenshtein: the distance matrix row by row
levenshtein(a, b) ==
  LET \* one row: cur holds its entries for the prefixes of a done so far,
      \* prev the row before it, c the character of b the row is for
      RECURSIVE levRow(_, _, _)
      levRow(c, prev, cur) ==
        IF Len(cur) = Len(a) + 1 THEN cur
        ELSE LET k == Len(cur)
                 cost == IF a[k] = c THEN 0 ELSE 1
                 del == prev[k + 1] + 1
                 ins == cur[k] + 1
                 sub == prev[k] + cost
                 m == IF del < ins THEN del ELSE ins
             IN levRow(c, prev, Append(cur, IF m < sub THEN m ELSE sub))
      RECURSIVE levRows(_, _)
      levRows(prev, n) ==
        IF n > Len(b) THEN prev[Len(a) + 1]
        ELSE levRows(levRow(b[n], prev, <<n>>), n + 1)
  IN levRows([k \in 1..(Len(a) + 1) |-> k - 1], 1)

\* ------------------------------------------------------------------------
\* Confidence values: <<>> is undefined, <<n, d>> the fraction n/d (d > 0)
\* ------------------------------------------------------------------------
NoConf == <<>>
Frac(n, d) == <<n, d>>
FracLeq(x, y) == x[1] * y[2] <= y[1] * x[2]
FracMax(x, y) == IF FracLeq(x, y) THEN y ELSE x
FracMin(x, y) == IF FracLeq(x, y) THEN x ELSE y

\* the confidence passed through as the validator gave it
clampNone(n) == n
clamp01(n) ==
  IF n = NoConf THEN NoConf ELSE FracMax(Frac(0, 1), FracMin(Frac(1, 1), n))

\* ------------------------------------------------------------------------
\* Rows: an object with its keys in insertion order
\* ------------------------------------------------------------------------
Fields == {"email", "cat", "country"}

Range(q) == {q[k] : k \in 1..Len(q)}
EmptyRow == [keys |-> <<>>, vals |-> [f \in Fields |-> Undef]]
\* row[f]
Get(row, f) == IF f \in Range(row.keys) THEN row.vals[f] ELSE Undef
\* row[f] = v
Put(row, f, v) ==
  [keys |-> IF f \in Range(row.keys) THEN row.keys ELSE Append(row.keys, f),
   vals |-> [row.vals EXCEPT ![f] = v]]

\* ------------------------------------------------------------------------
\* ValidationResult, rule parameters, engine options
\* ------------------------------------------------------------------------
NoProblem == ""
Result(valid, normalized, problem) ==
  [throws |-> FALSE, valid |-> valid, normalized |-> normalized, problem |-> problem,
   suggestion |-> Undef, confidence |-> NoConf]
Valid == Result(TRUE, Undef, NoProblem)
ValidNorm(normalized) == Result(TRUE, normalized, NoProblem)
Invalid(problem) == Result(FALSE, Undef, problem)
\* a validator that throws: message carried in problem
Throw(message) ==
  [throws |-> TRUE, valid |-> FALSE, normalized |-> Undef, problem |-> message,
   suggestion |-> Undef, confidence |-> NoConf]

\* rule.params; fn = "" and pattern = "" stand for an absent key
NoParams ==
  [pattern |-> "", allowed |-> <<>>, synonyms |-> <<>>, fn |-> "",
   startField |-> "", endField |-> "", min |-> <<>>, max |-> <<>>,
   type |-> "", to |-> "", countryField |-> "", defaultCountry |-> ""]

\* EngineOptions; fuzzyMaxDistance <<>> is undefined, registry the set of names
\* the caller registered
DefaultOptions ==
  [defaultCountry |-> "", customCodeRegistry |-> {}, countryMapper |-> FALSE,
   stateMapper |-> FALSE, fuzzyMaxDistance |-> <<>>]

\* the default of ctx.options.fuzzyMaxDistance ?? 2
DefaultFuzzyMaxDistance == 2

\* ------------------------------------------------------------------------
\* Library calls, by what the engine relies on
\* ------------------------------------------------------------------------
IsDigits(s) == s # <<>> /\ \A k \in 1..Len(s) : s[k] = "1"
\* value of a string of digits
RECURSIVE DigitsValue(_)
DigitsValue(s) ==
  IF s = <<>> THEN 0 ELSE 10 * DigitsValue(SubSeq(s, 1, Len(s) - 1)) + 1

\* Number(value) for a non-empty value: <<>> is NaN, else the digits
NumberOf(v) ==
  IF v.t = "number" THEN v.s
  ELSE IF IsDigits(trim(String(v))) THEN trim(String(v)) ELSE <<>>

\* validator/lib/isEmail: one "@", something on both sides, no blank
isEmail(s) ==
  /\ Cardinality({k \in 1..Len(s) : s[k] = "@"}) = 1
  /\ s[1] # "@" /\ s[Len(s)] # "@"
  /\ \A k \in 1..Len(s) : s[k] # " "

\* validator/lib/isURL with require_protocol false: no blank, no "@" alone
isURL(s) ==
  /\ s # <<>>
  /\ \A k \in 1..Len(s) : s[k] \notin {" ", "@"}

HttpsPrefix == <<"https://">>
startsWithHttp(s) == s # <<>> /\ s[1] = "https://"
\* new URL(text) with the host lowercased, then toString()
URLToString(s) == toLowerCase(s) \o (IF s[Len(s)] = "/" THEN <<>> ELSE <<"/">>)
\* new URL(text) throws on text without a scheme
URLParses(s) == startsWithHttp(s)

\* dayjs(value).isValid(): undefined is now, null is invalid, a number is a
\* timestamp, a string parses when it is digits, optionally in ISO form
IsIso(s) == Len(s) >= 2 /\ s[Len(s)] = "Z" /\ IsDigits(SubSeq(s, 1, Len(s) - 1))
dayjsValid(v) ==
  CASE v.t = "undefined" -> TRUE
    [] v.t = "null" -> FALSE
    [] v.t = "number" -> TRUE
    [] OTHER -> IsDigits(v.s) \/ IsIso(v.s)
\* the digits of the instant a valid dayjs(value) holds; now is after them all
Now == <<"1", "1", "1", "1", "1", "1">>
dayjsDigits(v) ==
  CASE v.t = "undefined" -> Now
    [] v.t = "number" -> v.s
    [] IsIso(v.s) -> SubSeq(v.s, 1, Len(v.s) - 1)
    [] OTHER -> v.s
toISOString(v) == Str(dayjsDigits(v) \o <<"Z">>)
valueOf(v) == Num(dayjsDigits(v))
\* d.format(pattern): a date string dayjs reads back
format(v) == Str(dayjsDigits(v))

\* libphonenumber-js: digits, with or without the leading +
IsPhone(s) ==
  \/ Len(s) >= 2 /\ IsDigits(s)
  \/ Len(s) >= 3 /\ s[1] = "+" /\ IsDigits(Tail(s))
formatInternational(s) == IF s[1] = "+" THEN s ELSE <<"+">> \o s

\* ------------------------------------------------------------------------
\* Country / state mappers (simpleCountryMapper, simpleStateMapper), on the
\* names the alphabet can spell
\* ------------------------------------------------------------------------
\* .replace(/\./g, '')
removeDots(s) == SelectSeq(s, LAMBDA c : c # ".")

\* <<>> is null
simpleCountryMapper(input) ==
  IF input = <<>> THEN <<>>
  ELSE LET v == trim(removeDots(toLowerCase(input)))
       IN CASE v = <<"c", "a">> -> <<"C", "A">>
            [] v = <<"u", "s">> -> <<"U", "S">>
            [] OTHER -> <<>>

simpleStateMapper(input, country) ==
  IF input = <<>> THEN <<>>
  ELSE LET v == trim(removeDots(toLowerCase(input)))
       IN IF toUpperCase(country) = <<"U", "S">>
          THEN CASE v = <<"c", "a">> -> <<"C", "A">>
                 [] OTHER -> <<>>
          ELSE <<>>

\* ------------------------------------------------------------------------
\* Custom validators of the registry
\* ------------------------------------------------------------------------
VinLength == 17
\* /^[A-HJ-NPR-Z0-9]{17}$/ on the upper-cased text
IsVin(s) == Len(s) = VinLength /\ \A k \in 1..Len(s) : s[k] \in {"A", "C", "1"}
vin(value) ==
  IF ~Truthy(value) THEN Valid
  ELSE LET v == toUpperCase(trim(String(value)))
       IN IF IsVin(v) THEN ValidNorm(Str(v)) ELSE Invalid("Invalid VIN")

NaicLength == 5
\* /^\d{5,6}$/
IsNaic(s) == Len(s) \in {NaicLength, NaicLength + 1} /\ IsDigits(s)
naic(value) ==
  IF ~Truthy(value) THEN Valid
  ELSE LET v == trim(String(value))
       IN IF IsNaic(v) THEN ValidNorm(Str(v)) ELSE Invalid("Invalid NAIC code")

dateOrder(args, row) ==
  LET s == Get(row, args.startField)
      e == Get(row, args.endField)
  IN IF ~dayjsValid(s) \/ ~dayjsValid(e) THEN Invalid("Invalid start/end date")
     ELSE IF DigitsValue(dayjsDigits(e)) < DigitsValue(dayjsDigits(s))
          THEN Invalid("End date precedes start date")
          ELSE Valid

\* the names lib/custom-code-registry registers
customCodeRegistry == {"dateOrder", "vin", "naic"}
\* functions a caller may register besides: one that throws, one that
\* proposes a value with a confidence, one that fills in a default, one that
\* returns a normalized value together with a suggestion, one that returns
\* a normalized value with a suggestion and a remark as its problem
CallerFunctions == {"throws", "suggests", "defaults", "proposes", "notes"}

CustomFunction(fn, value, params, row) ==
  CASE fn = "dateOrder" -> dateOrder(params, row)
    [] fn = "vin" -> vin(value)
    [] fn = "naic" -> naic(value)
    [] fn = "throws" -> Throw("boom")
    [] fn = "suggests" ->
         [Valid EXCEPT !.suggestion = Str(<<"a">>), !.confidence = Frac(3, 2)]
    [] fn = "defaults" ->
         IF isEmpty(value) THEN ValidNorm(Str(<<"a">>)) ELSE Valid
    [] fn = "proposes" ->
         [ValidNorm(Str(<<"c">>)) EXCEPT !.suggestion = Str(<<"a">>)]
    [] fn = "notes" ->
         [ValidNorm(Str(<<"c">>)) EXCEPT !.suggestion = Str(<<"a">>), !.problem = "note"]

\* ------------------------------------------------------------------------
\* Built-in validators
\* ------------------------------------------------------------------------
requiredOnlyMissing(value) ==
  IF value \notin {Undef, Null} THEN Valid ELSE Invalid("Value is required.")
required(value) ==
  IF ~isEmpty(value) THEN Valid ELSE Invalid("Value is required.")

\* new RegExp(pattern) throws on a malformed pattern
MalformedPattern == "("
LowercasePattern == "^[a-z]+$"
RegExpTest(pattern, s) ==
  CASE pattern = LowercasePattern ->
         s # <<>> /\ \A k \in 1..Len(s) : s[k] \in {"a", "c", "u", "s"}
    [] OTHER -> TRUE

regex(value, params) ==
  IF isEmpty(value) THEN Valid
  ELSE IF params.pattern = "" THEN Valid
  ELSE IF params.pattern = MalformedPattern
       THEN Throw("Invalid regular expression")
  ELSE IF RegExpTest(params.pattern, String(value)) THEN Valid
  ELSE Invalid("Value does not match pattern.")

\* Object.fromEntries over the lower-cased keys: the last entry of a key wins;
\* Undef when the key is absent
SynonymLookup(synonyms, key) ==
  LET hits == {k \in 1..Len(synonyms) : toLowerCase(synonyms[k][1]) = key}
  IN IF hits = {} THEN Undef
     ELSE Str(synonyms[CHOOSE k \in hits : \A j \in hits : j <= k][2])

\* the loop over allowed: the first candidate at the least distance
NearestAllowed(v, allowed) ==
  LET dist(k) == levenshtein(toLowerCase(v), toLowerCase(allowed[k]))
      k0 == CHOOSE k \in 1..Len(allowed) :
              /\ \A j \in 1..Len(allowed) : dist(k) <= dist(j)
              /\ \A j \in 1..(k - 1) : dist(k) < dist(j)
  IN [cand |-> allowed[k0], dist |-> dist(k0)]

FuzzyMaxDistance(options) ==
  IF options.fuzzyMaxDistance = <<>> THEN DefaultFuzzyMaxDistance
  ELSE options.fuzzyMaxDistance[1]

SynonymHit(syn) == Truthy(syn)

\* the synonym map consulted before the allowed list
enumSynonymFirst(value, params, options) ==
  IF isEmpty(value) THEN Valid
  ELSE
    LET v == trim(toStr(value))
        syn == SynonymLookup(params.synonyms, toLowerCase(v))
    IN IF SynonymHit(syn) THEN ValidNorm(syn)
       ELSE IF v \in Range(params.allowed) THEN ValidNorm(Str(v))
       ELSE Invalid("Value not in allowed enum.")

enum(value, params, options) ==
  IF isEmpty(value) THEN Valid
  ELSE
    LET v == trim(toStr(value))
        allowed == params.allowed
        syn == SynonymLookup(params.synonyms, toLowerCase(v))
        maxD == FuzzyMaxDistance(options)
    IN IF v \in Range(allowed) THEN ValidNorm(Str(v))
       ELSE IF SynonymHit(syn) THEN ValidNorm(syn)
       ELSE IF allowed # <<>> /\ NearestAllowed(v, allowed).dist <= maxD
            THEN LET best == NearestAllowed(v, allowed)
                 IN [ValidNorm(Str(best.cand)) EXCEPT
                       !.confidence =
                         FracMax(Frac(3, 5), Frac(maxD + 1 - best.dist, maxD + 1))]
       ELSE Invalid("Value not in allowed enum.")

range(value, params) ==
  IF isEmpty(value) THEN Valid
  ELSE IF params.type \in {"", "number"}
  THEN LET num == NumberOf(value)
       IN IF num = <<>> THEN Invalid("Not a number.")
          ELSE IF params.min # <<>> /\ DigitsValue(num) < params.min[1]
               THEN Invalid("Number below min.")
          ELSE IF params.max # <<>> /\ DigitsValue(num) > params.max[1]
               THEN Invalid("Number above max.")
          ELSE ValidNorm(Num(num))
  ELSE IF ~dayjsValid(value) THEN Invalid("Invalid date.")
       ELSE IF params.min # <<>> /\ DigitsValue(dayjsDigits(value)) < params.min[1]
            THEN Invalid("Date below min.")
       ELSE IF params.max # <<>> /\ DigitsValue(dayjsDigits(value)) > params.max[1]
            THEN Invalid("Date above max.")
       ELSE ValidNorm(toISOString(value))

date_format(value, params) ==
  IF isEmpty(value) THEN Valid
  ELSE IF ~dayjsValid(value) THEN Invalid("Invalid date.")
  ELSE IF params.to \in {"", "iso"} THEN ValidNorm(toISOString(value))
  ELSE IF params.to = "epoch" THEN ValidNorm(valueOf(value))
  ELSE ValidNorm(format(value))

email(value) ==
  IF isEmpty(value) THEN Valid
  ELSE LET v == toLowerCase(trim(toStr(value)))
       IN IF isEmail(v) THEN ValidNorm(Str(v)) ELSE Invalid("Invalid email.")

phone(value, params, options) ==
  IF isEmpty(value) THEN Valid
  ELSE IF IsPhone(trim(String(value)))
       THEN ValidNorm(Str(formatInternational(trim(String(value)))))
       ELSE Invalid("Invalid phone number.")

url(value) ==
  IF isEmpty(value) THEN Valid
  ELSE LET v == trim(toStr(value))
           text == IF startsWithHttp(v) THEN v ELSE HttpsPrefix \o v
       IN IF ~isURL(v) THEN Invalid("Invalid URL.")
          ELSE IF URLParses(text) THEN ValidNorm(Str(URLToString(text)))
          ELSE Invalid("Invalid URL.")

country(value, options) ==
  IF isEmpty(value) THEN Valid
  ELSE LET mapped == IF options.countryMapper
                     THEN simpleCountryMapper(String(value)) ELSE <<>>
       IN IF mapped # <<>> THEN ValidNorm(Str(mapped))
          ELSE Invalid("Unknown country code/name.")

state(value, params, row, options) ==
  IF isEmpty(value) THEN Valid
  ELSE LET countryField == IF params.countryField = "" THEN "country"
                           ELSE params.countryField
           ctry == toUpperCase(toStr(Get(row, countryField)))
           mapped == IF options.stateMapper
                     THEN simpleStateMapper(String(value), ctry) ELSE <<>>
       IN IF mapped # <<>> THEN ValidNorm(Str(mapped))
          ELSE Invalid("Unknown/invalid state or province.")

custom_codeLenient(value, params, row, options) ==
  IF params.fn = "" \/ params.fn \notin options.customCodeRegistry THEN Valid
  ELSE CustomFunction(params.fn, value, params, row)
custom_code(value, params, row, options) ==
  IF params.fn = "" THEN Valid
  ELSE IF params.fn \notin options.customCodeRegistry
       THEN Invalid("Custom function not registered: " \o params.fn)
  ELSE CustomFunction(params.fn, value, params, row)

llm_review == Valid

\* the validators table: the names it has
ValidatorKeys ==
  {"required", "regex", "enum", "range", "date_format", "email", "phone", "url",
   "country", "state", "custom_code", "llm_review"}

\* validators is an object literal: validators[name] also finds what the
\* object inherits from Object.prototype
InheritedKeys == {"toString"}

\* validators[name](value, rule.params, row, ctx); the inherited toString
\* returns the string '[object Undefined]', which has no valid, normalized,
\* suggestion, problem or confidence
CallValidator(name, value, params, row, options) ==
  CASE name = "toString" -> Result(FALSE, Undef, NoProblem)
    [] name = "required" -> required(value)
    [] name = "regex" -> regex(value, params)
    [] name = "enum" -> enum(value, params, options)
    [] name = "range" -> range(value, params)
    [] name = "date_format" -> date_format(value, params)
    [] name = "email" -> email(value)
    [] name = "phone" -> phone(value, params, options)
    [] name = "url" -> url(value)
    [] name = "country" -> country(value, options)
    [] name = "state" -> state(value, params, row, options)
    [] name = "custom_code" -> custom_code(value, params, row, options)
    [] name = "llm_review" -> llm_review

\* whether the validator of the rule throws on the value
Threw(rule, value, row, options) ==
  /\ rule.validator \in ValidatorKeys
  /\ CallValidator(rule.validator, value, rule.params, row, options).throws

\* RuleEngine.applyRule: a name validators[name] does not find is valid, a
\* throw becomes an invalid result
ValidatorErrorPrefix == "Validator error: "
applyRuleNoCatch(rule, value, row, options) ==
  IF rule.validator \notin ValidatorKeys \cup InheritedKeys THEN Valid
  ELSE CallValidator(rule.validator, value, rule.params, row, options)
applyRule(rule, value, row, options) ==
  IF rule.validator \notin ValidatorKeys \cup InheritedKeys THEN Valid
  ELSE LET r == CallValidator(rule.validator, value, rule.params, row, options)
       IN IF r.throws THEN Invalid(ValidatorErrorPrefix \o r.problem) ELSE r

\* ------------------------------------------------------------------------
\* RuleEngine
\* ------------------------------------------------------------------------
VARIABLES
  ruleSet,      \* this.ruleSet.rules
  options,      \* this.options
  input,        \* the rows the caller is about to hand to applyChunk
  heap,         \* the row objects, by reference
  rows,         \* applyChunk: the references of the rows passed in
  given,        \* the rows as they were when applyChunk was called
  onResult,     \* applyChunk: whether a callback was passed
  out,          \* applyChunk: out
  i,            \* applyChunk: the loop index
  pc,           \* where the engine is
  normalized,   \* applyRow: reference of the copy (0 outside applyRow)
  issues,       \* applyRow: issues
  ruleIdx,      \* applyRow: position in the rule set of the rule in progress
  fields,       \* applyRow: fields of the rule still to do
  calls,        \* history: one record per validator invocation
  delivered,    \* history: the callback's invocations
  pass,         \* 1 for the first applyChunk, 2 for the second
  firstOut,     \* the result of the first applyChunk, by value
  vIn,          \* validator specification: the input
  vOut          \* validator specification: the result

\* SchemaMapper (components/SchemaMapper.tsx)
VARIABLES
  canon,        \* the canonical fields in use
  file,         \* the parsed sheet: one <<header, values>> per column
  columns,      \* the ColumnSpec per column
  base,         \* history: columns as they were before the latest merge
  mapping       \* history: the external proposal merged last

\* dedupeScan (lib/dedupe.ts)
VARIABLES
  config,       \* the request: method, jobId, keyFields, fuzzyFields, limit
  docs,         \* the documents of jobs/{jobId}/rows
  jobRows,      \* the rows read from the job
  buckets,      \* key -> ids, as a sequence of [key, ids] in insertion order
  jobIssues,    \* the issues added to the job
  fuzzIssues,   \* the issues of the fuzzy phase
  response      \* the JSON answer

VARIABLES
  llmJobs,      \* two jobs that differ only in the values of PII fields: their rows
  llmPii,       \* ruleSet.pii.fields of both jobs
  llmRequest,   \* the call: its endpoint, rowIds, columns, the rows with open issues
  llmSent       \* per job, the row payloads handed to the LLM, each with the
                \* position of the row it was made of

VARIABLES
  issueDocs,    \* jobs/{jobId}/issues: the document of each issue id
  rowDocs,      \* jobs/{jobId}/rows: the document of each row id
  requests,     \* the review requests: what was asked and how far each one is
  rowWrites     \* history: the suggestions written into rows

\* parseWorker (lib/pipeline-workers.ts)
VARIABLES
  parser,       \* the csv-parse stream: records not yet parsed, records readable
  handlers,     \* the calls of the 'readable' listener and where each one is
  writer,       \* the bulk writer and the export stream
  worker        \* parseWorker: its position, its counters, the job document

\* the variables of the mapper and of dedupeScan
scanVars ==
  <<canon, file, columns, base, mapping,
    config, docs, jobRows, buckets, jobIssues, fuzzIssues, response>>

\* the variables of the LLM endpoints
llmVars == <<llmJobs, llmPii, llmRequest, llmSent>>
\* the variables of the review endpoints
reviewVars == <<issueDocs, rowDocs, requests, rowWrites>>
\* the variables of parseWorker
parseVars == <<parser, handlers, writer, worker>>
\* the variables of the HTTP endpoints and workers
svcVars == <<llmVars, reviewVars, parseVars>>

\* the variables of everything but the rules engine
auxVars == <<scanVars, svcVars>>

vars ==
  <<ruleSet, options, input, heap, rows, given, onResult, out, i, pc, normalized, issues,
    ruleIdx, fields, calls, delivered, pass, firstOut, vIn, vOut, auxVars>>

\* the mapper and the scan are not in use
scanIdle ==
  /\ canon = <<>> /\ file = <<>> /\ columns = <<>> /\ base = <<>> /\ mapping = <<>>
  /\ config = <<>> /\ docs = <<>> /\ jobRows = <<>> /\ buckets = <<>>
  /\ jobIssues = <<>> /\ fuzzIssues = <<>> /\ response = <<>>

\* no LLM endpoint in use
llmIdle ==
  /\ llmJobs = <<>> /\ llmPii = <<>> /\ llmRequest = <<>> /\ llmSent = <<>>
\* no review endpoint in use
reviewIdle ==
  /\ issueDocs = <<>> /\ rowDocs = <<>> /\ requests = <<>> /\ rowWrites = <<>>

\* parseWorker not in use
parseIdle == parser = <<>> /\ handlers = <<>> /\ writer = <<>> /\ worker = <<>>

svcIdle == llmIdle /\ reviewIdle /\ parseIdle

auxIdle == scanIdle /\ svcIdle

Rule(id, appliesTo, validator, params, fix, severity, enabled) ==
  [id |-> id, appliesTo |-> appliesTo, validator |-> validator, params |-> params,
   fix |-> fix, severity |-> severity, enabled |-> enabled]

\* rule.fix?.strategy || 'none'
Strategy(rule) == IF rule.fix = "" THEN "none" ELSE rule.fix
\* rule.severity || 'warning'
Severity(rule) == IF rule.severity = "" THEN "warning" ELSE rule.severity

\* Object.keys(row) / Set insertion order
RECURSIVE AddAll(_, _)
AddAll(acc, q) ==
  IF q = <<>> THEN acc
  ELSE AddAll(IF Head(q) \in Range(acc) THEN acc ELSE Append(acc, Head(q)), Tail(q))

RECURSIVE ExpandInto(_, _, _)
ExpandInto(acc, appliesTo, row) ==
  IF appliesTo = <<>> THEN acc
  ELSE ExpandInto(
         IF Head(appliesTo) = "*" THEN AddAll(acc, row.keys)
         ELSE AddAll(acc, <<Head(appliesTo)>>),
         Tail(appliesTo), row)

\* the fields collected in a list, not in a Set
expandFieldsRepeating(appliesTo, row) ==
  LET RECURSIVE listed(_)
      listed(q) ==
        IF q = <<>> THEN <<>>
        ELSE (IF Head(q) = "*" THEN row.keys ELSE <<Head(q)>>) \o listed(Tail(q))
  IN listed(appliesTo)
expandFields(appliesTo, row) == ExpandInto(<<>>, appliesTo, row)

\* { ...row }: a new object with the same keys and values
AliasCopy(h, ref) == [heap |-> h, ref |-> ref]
ShallowCopy(h, ref) == [heap |-> Append(h, h[ref]), ref |-> Len(h) + 1]

\* the value the validator is given: normalized[field]
ReadRaw(h, rowRef, normRef, field) == Get(h[rowRef], field)
ReadCurrent(h, rowRef, normRef, field) == Get(h[normRef], field)

\* if (vr.normalized !== undefined && strategy === 'auto_fix') normalized[field] = ...
WritesAlways(rule, vr) == vr.normalized # Undef
WritesNever(rule, vr) == FALSE
Writes(rule, vr) == vr.normalized # Undef /\ Strategy(rule) = "auto_fix"

\* a normalized value not taken for a suggestion
hasSuggestionOnlyGiven(rule, vr) == vr.suggestion # Undef
hasSuggestion(rule, vr) ==
  vr.suggestion # Undef \/ (vr.normalized # Undef /\ Strategy(rule) # "auto_fix")

EmitsOnlyInvalid(rule, vr) == ~vr.valid
Emits(rule, vr) == ~vr.valid \/ hasSuggestion(rule, vr)

\* vr.suggestion ?? vr.normalized
Proposed(vr) == IF vr.suggestion \notin {Undef, Null} THEN vr.suggestion ELSE vr.normalized

IssueSuggestionAlways(rule, vr) == Proposed(vr)
IssueSuggestion(rule, vr) ==
  IF Strategy(rule) = "auto_fix" THEN Undef ELSE Proposed(vr)

IssueProblem(rule, vr) ==
  IF vr.problem # NoProblem THEN vr.problem
  ELSE IF hasSuggestion(rule, vr) THEN "Review suggested fix."
  ELSE "Validation check."

MakeIssue(rule, field, rowId, vr) ==
  [rowId |-> rowId, field |-> field, ruleId |-> rule.id,
   severity |-> Severity(rule), problem |-> IssueProblem(rule, vr),
   suggestion |-> IssueSuggestion(rule, vr), confidence |-> clamp01(vr.confidence),
   source |-> "deterministic", status |-> "open"]

\* positions of the enabled rules at or after k, in rule-set order
NextEnabled(k) ==
  LET later == {j \in k..Len(ruleSet) : ruleSet[j].enabled}
  IN IF later = {} THEN Len(ruleSet) + 1
     ELSE CHOOSE j \in later : \A m \in later : j <= m

\* ------------------------------------------------------------------------
\* Inputs of the engine specification
\* ------------------------------------------------------------------------
Row2(email_, cat_) == Put(Put(EmptyRow, "email", email_), "cat", cat_)

RowPool ==
  { Row2(Str(<<"A", "@", "c">>), Str(<<"A", "c">>)),
    Row2(Str(<<" ">>), Str(<<"a", "c">>)),
    Put(EmptyRow, "cat", Str(<<"c", "c", "c", "c">>)),
    Put(EmptyRow, "cat", Str(<<"c", "c">>)),
    Row2(Str(<<"a">>), Undef) }

EnumParams ==
  [NoParams EXCEPT !.allowed = <<<<"A">>, <<"c">>>>,
                   !.synonyms = << <<<<"A", "c">>, <<"A">>>>, <<<<"a">>, <<"c">>>> >>]

RulePool ==
  { Rule("req", <<"email">>, "required", NoParams, "", "error", TRUE),
    Rule("email", <<"email">>, "email", NoParams, "auto_fix", "", TRUE),
    Rule("email-s", <<"email", "email">>, "email", NoParams, "suggest_only", "info", TRUE),
    Rule("enum", <<"cat">>, "enum", EnumParams, "auto_fix", "", TRUE),
    Rule("enum-x", <<"cat">>, "enum",
         [NoParams EXCEPT !.allowed = <<<<"c">>>>,
                          !.synonyms = << <<<<"a", "c">>, <<"c", "A">>>> >>],
         "auto_fix", "", TRUE),
    Rule("enum-n", <<"cat", "*">>, "enum", EnumParams, "", "", TRUE),
    Rule("re-bad", <<"*">>, "regex", [NoParams EXCEPT !.pattern = MalformedPattern],
         "auto_fix", "", TRUE),
    Rule("re-low", <<"cat">>, "regex", [NoParams EXCEPT !.pattern = LowercasePattern],
         "none", "error", TRUE),
    Rule("cc-miss", <<"email", "cat">>, "custom_code", [NoParams EXCEPT !.fn = "missing"],
         "llm_suggest", "", TRUE),
    Rule("cc-sugg", <<"cat">>, "custom_code", [NoParams EXCEPT !.fn = "suggests"],
         "auto_fix", "info", TRUE),
    Rule("cc-thr", <<"*">>, "custom_code", [NoParams EXCEPT !.fn = "throws"],
         "suggest_only", "warning", TRUE),
    Rule("cc-def", <<"email", "*">>, "custom_code", [NoParams EXCEPT !.fn = "defaults"],
         "auto_fix", "", TRUE),
    Rule("cc-prop", <<"cat">>, "custom_code", [NoParams EXCEPT !.fn = "proposes"],
         "auto_fix", "", TRUE),
    Rule("cc-note", <<"cat">>, "custom_code", [NoParams EXCEPT !.fn = "notes"],
         "suggest_only", "", TRUE),
    Rule("inherit", <<"cat">>, "toString", NoParams, "auto_fix", "", TRUE),
    Rule("req-w", <<"cat", "cat">>, "required", NoParams, "suggest_only", "", TRUE),
    Rule("other", <<"*">>, "nonesuch", NoParams, "auto_fix", "error", TRUE),
    Rule("off", <<"*">>, "required", NoParams, "auto_fix", "error", FALSE),
    Rule("llm", <<>>, "llm_review", NoParams, "llm_suggest", "", TRUE) }

\* the sequences over S of length lo..hi
SeqsFromTo(S, lo, hi) == {q \in SeqsUpTo(S, hi) : Len(q) >= lo}

RuleSets == SeqsUpTo(RulePool, MaxRules)
\* applyRow's callers hand it one row
SingleRows == SeqsFromTo(RowPool, 1, 1)

\* the rule sets and chunks of the chunk specification
ChunkRulePool == {r \in RulePool : r.id \in {"email", "enum-n", "cc-miss"}}
ChunkRuleSets == SeqsUpTo(ChunkRulePool, MaxRules)
Chunks == SeqsFromTo(RowPool, 1, MaxRows)
EngineOptions ==
  [DefaultOptions EXCEPT !.customCodeRegistry = customCodeRegistry \cup CallerFunctions,
                         !.countryMapper = TRUE, !.stateMapper = TRUE]

\* ------------------------------------------------------------------------
\* The engine's steps
\* ------------------------------------------------------------------------
vValidatorIdle == vIn = <<>> /\ vOut = <<>>

\* new RuleEngine(ruleSet, options)
InitWith(ruleSets, chunks) ==
  /\ auxIdle
  /\ ruleSet \in ruleSets
  /\ options = EngineOptions
  /\ input \in chunks
  /\ heap = <<>> /\ rows = <<>> /\ given = <<>> /\ onResult = FALSE
  /\ out = <<>> /\ i = 0 /\ pc = "idle"
  /\ normalized = 0 /\ issues = <<>> /\ ruleIdx = 0 /\ fields = <<>>
  /\ calls = <<>> /\ delivered = <<>> /\ pass = 1 /\ firstOut = <<>>
  /\ vValidatorIdle

Init == InitWith(RuleSets, SingleRows)
InitChunk == InitWith(ChunkRuleSets, Chunks)

\* applyChunk(rows, onResult?) is called
ApplyChunk ==
  /\ UNCHANGED auxVars
  /\ pc = "idle"
  /\ heap' = input
  /\ rows' = [k \in 1..Len(input) |-> k]
  /\ given' = input
  /\ \E cb \in BOOLEAN : onResult' = cb
  /\ out' = <<>> /\ i' = 0 /\ pc' = "loop"
  /\ UNCHANGED <<ruleSet, options, input, normalized, issues, ruleIdx, fields, calls,
                 delivered, pass, firstOut, vIn, vOut>>

\* one issue list kept across the rows of a chunk
ApplyRowBeginSharedIssues ==
  /\ UNCHANGED auxVars
  /\ pc = "loop" /\ i < Len(rows)
  /\ LET c == ShallowCopy(heap, rows[i + 1])
     IN heap' = c.heap /\ normalized' = c.ref
  /\ issues' = IF out = <<>> THEN <<>> ELSE out[Len(out)].issues
  /\ ruleIdx' = NextEnabled(1)
  /\ fields' = <<>>
  /\ pc' = "rules"
  /\ UNCHANGED <<ruleSet, options, input, rows, given, onResult, out, i, calls, delivered,
                 pass, firstOut, vIn, vOut>>

\* applyRow begins on rows[i]: the copy, the empty issue list, the first rule
ApplyRowBegin ==
  /\ UNCHANGED auxVars
  /\ pc = "loop" /\ i < Len(rows)
  /\ LET c == ShallowCopy(heap, rows[i + 1])
     IN heap' = c.heap /\ normalized' = c.ref
  /\ issues' = <<>>
  /\ ruleIdx' = NextEnabled(1)
  /\ fields' = <<>>
  /\ pc' = "rules"
  /\ UNCHANGED <<ruleSet, options, input, rows, given, onResult, out, i, calls, delivered,
                 pass, firstOut, vIn, vOut>>

\* for (const rule of activeRules): expandFields
ExpandRule ==
  /\ UNCHANGED auxVars
  /\ pc = "rules" /\ ruleIdx <= Len(ruleSet)
  /\ LET fs == expandFields(ruleSet[ruleIdx].appliesTo, heap[normalized])
     IN IF fs = <<>>
        THEN /\ ruleIdx' = NextEnabled(ruleIdx + 1)
             /\ UNCHANGED <<fields, pc>>
        ELSE /\ fields' = fs /\ pc' = "fields"
             /\ UNCHANGED ruleIdx
  /\ UNCHANGED <<ruleSet, options, input, heap, rows, given, onResult, out, i, normalized,
                 issues, calls, delivered, pass, firstOut, vIn, vOut>>

\* for (const field of fields): the body of the inner loop
ApplyField ==
  /\ UNCHANGED auxVars
  /\ pc = "fields" /\ fields # <<>>
  /\ LET rule == ruleSet[ruleIdx]
         field == Head(fields)
         val == ReadCurrent(heap, rows[i + 1], normalized, field)
         vr == applyRule(rule, val, heap[normalized], options)
         after == IF Writes(rule, vr) THEN Put(heap[normalized], field, vr.normalized)
                  ELSE heap[normalized]
         emitted == IF Emits(rule, vr) THEN <<MakeIssue(rule, field, i, vr)>> ELSE <<>>
     IN IF vr.throws
        THEN /\ pc' = "raised"
             /\ UNCHANGED <<heap, issues, ruleIdx, fields, calls>>
        ELSE /\ heap' = [heap EXCEPT ![normalized] = after]
             /\ issues' = issues \o emitted
             /\ calls' = Append(calls,
                  [pass |-> pass, row |-> i, rule |-> ruleIdx, field |-> field,
                   val |-> val, vr |-> vr,
                   threw |-> Threw(rule, val, heap[normalized], options),
                   raw |-> Get(heap[rows[i + 1]], field),
                   before |-> heap[normalized], after |-> after,
                   emitted |-> emitted])
             /\ fields' = Tail(fields)
             /\ IF Tail(fields) = <<>>
                THEN ruleIdx' = NextEnabled(ruleIdx + 1) /\ pc' = "rules"
                ELSE UNCHANGED <<ruleIdx, pc>>
  /\ UNCHANGED <<ruleSet, options, input, rows, given, onResult, out, i, normalized,
                 delivered, pass, firstOut, vIn, vOut>>

\* the result put in front of the earlier ones
ApplyRowReturnPrepending ==
  /\ UNCHANGED auxVars
  /\ pc = "rules" /\ ruleIdx > Len(ruleSet)
  /\ LET res == [normalizedRow |-> normalized, issues |-> issues]
     IN /\ out' = <<res>> \o out
        /\ delivered' = IF onResult
                        THEN Append(delivered, [res |-> res, index |-> i, pass |-> pass])
                        ELSE delivered
  /\ i' = i + 1
  /\ normalized' = 0 /\ issues' = <<>> /\ ruleIdx' = 0
  /\ pc' = "loop"
  /\ UNCHANGED <<ruleSet, options, input, heap, rows, given, onResult, fields, calls, pass,
                 firstOut, vIn, vOut>>

\* return { normalizedRow, issues }; out.push(res); if (onResult) onResult(res, i)
ApplyRowReturn ==
  /\ UNCHANGED auxVars
  /\ pc = "rules" /\ ruleIdx > Len(ruleSet)
  /\ LET res == [normalizedRow |-> normalized, issues |-> issues]
     IN /\ out' = Append(out, res)
        /\ delivered' = IF onResult
                        THEN Append(delivered, [res |-> res, index |-> i, pass |-> pass])
                        ELSE delivered
  /\ i' = i + 1
  /\ normalized' = 0 /\ issues' = <<>> /\ ruleIdx' = 0
  /\ pc' = "loop"
  /\ UNCHANGED <<ruleSet, options, input, heap, rows, given, onResult, fields, calls, pass,
                 firstOut, vIn, vOut>>

\* return out
ApplyChunkReturn ==
  /\ UNCHANGED auxVars
  /\ pc = "loop" /\ i = Len(rows)
  /\ pc' = "done"
  /\ UNCHANGED <<ruleSet, options, input, heap, rows, given, onResult, out, i, normalized,
                 issues, ruleIdx, fields, calls, delivered, pass, firstOut, vIn, vOut>>

\* the caller runs applyChunk again, on the normalized rows it got back
ApplyChunkAgain ==
  /\ UNCHANGED auxVars
  /\ pc = "done" /\ pass = 1
  /\ firstOut' = [k \in 1..Len(out) |->
                    [normalizedRow |-> heap[out[k].normalizedRow],
                     issues |-> out[k].issues]]
  /\ rows' = [k \in 1..Len(out) |-> out[k].normalizedRow]
  /\ given' = [k \in 1..Len(out) |-> heap[out[k].normalizedRow]]
  /\ out' = <<>> /\ i' = 0 /\ pass' = 2 /\ pc' = "loop"
  /\ UNCHANGED <<ruleSet, options, input, heap, onResult, normalized, issues, ruleIdx,
                 fields, calls, delivered, vIn, vOut>>

\* ------------------------------------------------------------------------
\* The validator specification: one validator applied to one value
\* ------------------------------------------------------------------------
VinSample == [k \in 1..VinLength |-> "a"]
NaicSample == [k \in 1..NaicLength |-> "1"]
Values ==
  {Undef, Null} \cup {Str(q) : q \in Strings}
    \cup {Str(VinSample), Str(NaicSample), Str(<<"1", "1", "1">>)}

ContextRows ==
  { EmptyRow,
    Put(EmptyRow, "country", Str(<<"u", "s">>)),
    Row2(Str(<<"1", "1">>), Str(<<"1">>)),
    Row2(Str(<<"1">>), Str(<<"a">>)) }

AllowedPool == {<<"A">>, <<"a", "c">>, <<"c">>}
SynonymPool ==
  { <<<<"A", "c">>, <<"A">>>>, <<<<"a">>, <<>>>>, <<<<"a">>, <<"c", "c">>>>,
    <<<<"A">>, <<"c">>>> }
\* an object's keys are distinct
SynonymMaps ==
  {m \in SeqsUpTo(SynonymPool, MaxSynonyms) :
     \A j, k \in 1..Len(m) : j # k => m[j][1] # m[k][1]}

ValidatorInput(validator, params, value, row, opts) ==
  [validator |-> validator, params |-> params, value |-> value, row |-> row,
   options |-> opts]

PlainInput ==
  \E name \in {"required", "email", "phone", "url", "llm_review", "nonesuch"},
     v \in Values :
    vIn = <<ValidatorInput(name, NoParams, v, EmptyRow, DefaultOptions)>>
RegexInput ==
  \E p \in {"", LowercasePattern, MalformedPattern}, v \in Values :
    vIn = <<ValidatorInput("regex", [NoParams EXCEPT !.pattern = p], v, EmptyRow,
                           DefaultOptions)>>
RangeInput ==
  \E p \in {NoParams, [NoParams EXCEPT !.min = <<11>>], [NoParams EXCEPT !.max = <<1>>],
            [NoParams EXCEPT !.type = "date", !.max = <<11>>]},
     v \in Values :
    vIn = <<ValidatorInput("range", p, v, EmptyRow, DefaultOptions)>>
DateInput ==
  \E to \in {"", "iso", "epoch", "string"}, v \in Values :
    vIn = <<ValidatorInput("date_format", [NoParams EXCEPT !.to = to], v, EmptyRow,
                           DefaultOptions)>>
CountryInput ==
  \E b \in BOOLEAN, v \in Values :
    vIn = <<ValidatorInput("country", NoParams, v, EmptyRow,
                           [DefaultOptions EXCEPT !.countryMapper = b])>>
StateInput ==
  \E b \in BOOLEAN, v \in Values, row \in ContextRows :
    vIn = <<ValidatorInput("state", NoParams, v, row,
                           [DefaultOptions EXCEPT !.stateMapper = b])>>
CustomInput ==
  \E fn \in {"", "missing"} \cup customCodeRegistry \cup CallerFunctions,
     v \in Values, row \in ContextRows,
     reg \in {{}, customCodeRegistry, customCodeRegistry \cup CallerFunctions} :
    vIn = <<ValidatorInput("custom_code",
                           [NoParams EXCEPT !.fn = fn, !.startField = "email",
                                            !.endField = "cat"],
                           v, row, [DefaultOptions EXCEPT !.customCodeRegistry = reg])>>
EnumInput ==
  \E a \in SeqsUpTo(AllowedPool, MaxAllowed), m \in SynonymMaps, v \in Values,
     d \in {<<>>, <<0>>, <<1>>, <<-1>>} :
    vIn = <<ValidatorInput("enum", [NoParams EXCEPT !.allowed = a, !.synonyms = m], v,
                           EmptyRow, [DefaultOptions EXCEPT !.fuzzyMaxDistance = d])>>

InitValidator ==
  /\ auxIdle
  /\ ruleSet = <<>> /\ options = DefaultOptions /\ input = <<>>
  /\ heap = <<>> /\ rows = <<>> /\ given = <<>> /\ onResult = FALSE
  /\ out = <<>> /\ i = 0 /\ pc = "validator"
  /\ normalized = 0 /\ issues = <<>> /\ ruleIdx = 0 /\ fields = <<>>
  /\ calls = <<>> /\ delivered = <<>> /\ pass = 1 /\ firstOut = <<>>
  /\ \/ PlainInput \/ RegexInput \/ RangeInput \/ DateInput \/ CountryInput
     \/ StateInput \/ CustomInput \/ EnumInput
  /\ vOut = <<>>

\* applyRule(rule, value, row, ctx) on the input
Validate ==
  /\ UNCHANGED auxVars
  /\ pc = "validator" /\ vOut = <<>>
  /\ LET x == vIn[1]
     IN vOut' = <<applyRule(Rule("v", <<>>, x.validator, x.params, "", "", TRUE),
                            x.value, x.row, x.options)>>
  /\ UNCHANGED <<ruleSet, options, input, heap, rows, given, onResult, out, i, pc,
                 normalized, issues, ruleIdx, fields, calls, delivered, pass,
                 firstOut, vIn>>

NextValidator == Validate
SpecValidator == InitValidator /\ [][NextValidator]_vars

Next ==
  \/ ApplyChunk
  \/ ApplyRowBegin
  \/ ExpandRule
  \/ ApplyField
  \/ ApplyRowReturn
  \/ ApplyChunkReturn
  \/ ApplyChunkAgain

Spec == Init /\ [][Next]_vars
SpecChunk == InitChunk /\ [][Next]_vars

\* ------------------------------------------------------------------------
\* Properties of applyRow
\* ------------------------------------------------------------------------
\* the validator invocations of one applyRow call
CallsOfRow(p, r) == {n \in 1..Len(calls) : calls[n].pass = p /\ calls[n].row = r}
\* whether invocation n wrote its normalized value into the copy
Wrote(n) ==
  /\ Strategy(ruleSet[calls[n].rule]) = "auto_fix"
  /\ calls[n].vr.normalized # Undef
Max(S) == CHOOSE x \in S : \A y \in S : y <= x
Min(S) == CHOOSE x \in S : \A y \in S : x <= y

\* C1: applyRow leaves the caller's row as it was; the copy it works on and
\* returns is a different object, so fixes show only in normalizedRow.
C1_CallerRowUntouched ==
  /\ \A k \in 1..Len(rows) : heap[rows[k]] = given[k]
  /\ normalized # 0 => normalized \notin Range(rows)
  /\ \A k \in 1..Len(out) : out[k].normalizedRow \notin Range(rows)

C1_Witness ==
  /\ pc = "done"
  /\ \E k \in 1..Len(out) : heap[out[k].normalizedRow] # heap[rows[k]]

\* C2: within one applyRow call the rules run in rule-set order, only enabled
\* ones, and each validator is given the field's current value: the value the
\* latest earlier auto-fix wrote to it, the raw value when there was none.
C2_RulesSeeEarlierFixes ==
  \A n \in 1..Len(calls) :
    LET c == calls[n]
        earlier == {m \in CallsOfRow(c.pass, c.row) : m < n}
        fixes == {m \in earlier : calls[m].field = c.field /\ Wrote(m)}
    IN /\ ruleSet[c.rule].enabled
       /\ \A m \in earlier : calls[m].rule <= c.rule
       /\ c.val = IF fixes = {} THEN c.raw ELSE calls[Max(fixes)].vr.normalized

C2_Witness ==
  \E n \in 1..Len(calls) :
    /\ calls[n].val # calls[n].raw
    /\ \E m \in CallsOfRow(calls[n].pass, calls[n].row) :
         m < n /\ calls[m].rule < calls[n].rule /\ calls[m].field = calls[n].field
         /\ Wrote(m)

\* C3: a step of a rule whose strategy is not auto_fix leaves the normalized
\* row as it was, whatever its validator returned.
C3_OnlyAutoFixWrites ==
  [][(pc = "fields" /\ Strategy(ruleSet[ruleIdx]) # "auto_fix")
       => heap'[normalized] = heap[normalized]]_vars

C3_Witness ==
  \E n \in 1..Len(calls) :
    /\ Strategy(ruleSet[calls[n].rule]) \in {"suggest_only", "llm_suggest", "none"}
    /\ calls[n].vr.normalized # Undef
    /\ calls[n].vr.normalized # calls[n].val
    /\ calls[n].after = calls[n].before

\* the issues of the applyRow call in progress are those its invocations emitted
RECURSIVE EmittedUpTo(_, _, _)
EmittedUpTo(p, r, n) ==
  IF n = 0 THEN <<>>
  ELSE EmittedUpTo(p, r, n - 1)
         \o (IF calls[n].pass = p /\ calls[n].row = r THEN calls[n].emitted ELSE <<>>)

IssuesAreTheEmitted ==
  /\ normalized # 0 => issues = EmittedUpTo(pass, i, Len(calls))
  /\ \A k \in 1..Len(out) : out[k].issues = EmittedUpTo(pass, k - 1, Len(calls))

\* C4 as stated: one Issue per (rule, field) exactly when the validator said
\* invalid, or proposed a suggestion or normalized value under a strategy
\* other than auto_fix.
C4_AsStated ==
  /\ IssuesAreTheEmitted
  /\ \A n \in 1..Len(calls) :
       LET c == calls[n] IN
       /\ Len(c.emitted) <= 1
       /\ Len(c.emitted) = 1 <=>
            \/ ~c.vr.valid
            \/ /\ (c.vr.suggestion # Undef \/ c.vr.normalized # Undef)
               /\ Strategy(ruleSet[c.rule]) # "auto_fix"

\* C4, amended: one Issue per (rule, field) exactly when the validator said
\* invalid, or returned a suggestion (under any strategy), or returned a
\* normalized value under a strategy other than auto_fix.
C4_IssueIff ==
  /\ IssuesAreTheEmitted
  /\ \A n \in 1..Len(calls) :
       LET c == calls[n] IN
       /\ Len(c.emitted) <= 1
       /\ Len(c.emitted) = 1 <=>
            \/ ~c.vr.valid
            \/ c.vr.suggestion # Undef
            \/ c.vr.normalized # Undef /\ Strategy(ruleSet[c.rule]) # "auto_fix"

C4_Witness ==
  /\ pc = "done"
  /\ \E n \in 1..Len(calls) :
       /\ calls[n].vr.valid /\ calls[n].vr.suggestion # Undef
       /\ Strategy(ruleSet[calls[n].rule]) = "auto_fix"
       /\ Len(calls[n].emitted) = 1
  /\ \E n \in 1..Len(calls) :
       /\ calls[n].vr.valid /\ calls[n].vr.normalized # Undef
       /\ Len(calls[n].emitted) = 0

\* C5: an Issue of an auto_fix rule has no suggestion; an Issue of any other
\* rule carries the validator's suggestion, else its normalized value.
C5_SuggestionByStrategy ==
  \A n \in 1..Len(calls) :
    LET c == calls[n] IN
    c.emitted # <<>> =>
      c.emitted[1].suggestion =
        IF Strategy(ruleSet[c.rule]) = "auto_fix" THEN Undef
        ELSE IF c.vr.suggestion # Undef THEN c.vr.suggestion
        ELSE c.vr.normalized

C5_Witness ==
  /\ \E n \in 1..Len(calls) :
       /\ Strategy(ruleSet[calls[n].rule]) = "auto_fix"
       /\ calls[n].emitted # <<>> /\ calls[n].vr.suggestion # Undef
  /\ \E n \in 1..Len(calls) :
       /\ Strategy(ruleSet[calls[n].rule]) # "auto_fix"
       /\ calls[n].emitted # <<>> /\ calls[n].emitted[1].suggestion # Undef

\* every enabled rule was applied to every field it names, and with a
\* wildcard to every key of the row passed in, in the k-th finished applyRow
Processed(k) ==
  \A r \in 1..Len(ruleSet) :
    ruleSet[r].enabled =>
      \A f \in (Range(ruleSet[r].appliesTo) \ {"*"})
                 \cup (IF "*" \in Range(ruleSet[r].appliesTo)
                       THEN Range(given[k].keys) ELSE {}) :
        \E n \in CallsOfRow(pass, k - 1) : calls[n].rule = r /\ calls[n].field = f

ValidatorErrors ==
  {ValidatorErrorPrefix \o m : m \in {"boom", "Invalid regular expression"}}

\* C6 as stated: a validator that throws does not make applyRow raise; the
\* throw becomes one Issue for that (rule, field) with severity error and a
\* diagnostic problem, and the rest of the row is still processed.
C6_AsStated ==
  /\ pc # "raised"
  /\ \A n \in 1..Len(calls) :
       calls[n].threw =>
         /\ Len(calls[n].emitted) = 1
         /\ calls[n].emitted[1].severity = "error"
         /\ calls[n].emitted[1].problem \in ValidatorErrors
  /\ \A k \in 1..Len(out) : Processed(k)

\* C6, amended: a validator that throws does not make applyRow raise; the
\* throw becomes one Issue for that (rule, field) with the rule's configured
\* severity (warning when none is configured) and the problem
\* "Validator error: <message>", and the rest of the row is still processed.
C6_ThrowBecomesIssue ==
  /\ pc # "raised"
  /\ \A n \in 1..Len(calls) :
       calls[n].threw =>
         /\ ~calls[n].vr.valid
         /\ Len(calls[n].emitted) = 1
         /\ calls[n].emitted[1].severity = Severity(ruleSet[calls[n].rule])
         /\ calls[n].emitted[1].problem \in ValidatorErrors
         /\ calls[n].emitted[1].field = calls[n].field
         /\ calls[n].emitted[1].ruleId = ruleSet[calls[n].rule].id
  /\ \A k \in 1..Len(out) : Processed(k)

C6_Witness ==
  /\ pc = "done"
  /\ \E n \in 1..Len(calls) :
       /\ calls[n].threw
       /\ calls[n].emitted[1].severity = "warning"
       /\ \E m \in CallsOfRow(calls[n].pass, calls[n].row) :
            m > n /\ calls[m].rule > calls[n].rule

\* whether the rule names a function the registry does not hold
Unregistered(rule) ==
  /\ rule.validator = "custom_code"
  /\ rule.params.fn # ""
  /\ rule.params.fn \notin options.customCodeRegistry

FixedWithoutIssue(k, f) ==
  /\ \E n \in CallsOfRow(1, k - 1) : calls[n].field = f /\ Wrote(n)
  /\ \A m \in 1..Len(firstOut[k].issues) : firstOut[k].issues[m].field # f

FixedPointRule(rule) ==
  /\ rule.enabled /\ Strategy(rule) = "auto_fix"
  /\ \/ rule.validator = "email"
     \/ /\ rule.validator = "enum"
        /\ \A a \in Range(rule.params.allowed) : trim(a) = a
        /\ \A e \in 1..Len(rule.params.synonyms) :
             rule.params.synonyms[e][2] \in Range(rule.params.allowed)

\* rule r is the one rule applied to field f of the k-th row, in both passes
SoleRuleOn(k, f, r) ==
  /\ \E n \in CallsOfRow(1, k - 1) : calls[n].field = f
  /\ \A n \in CallsOfRow(1, k - 1) \cup CallsOfRow(2, k - 1) :
       calls[n].field = f => calls[n].rule = r

Blank(v) ==
  \/ v.t \in {"undefined", "null"}
  \/ v.t = "string" /\ \A k \in 1..Len(v.s) : v.s[k] = " "

\* C8 as stated: every validator other than required, custom_code included,
\* answers valid: true to an empty value.
C8_AsStated ==
  vOut # <<>> =>
    ((vIn[1].validator \in ValidatorKeys \ {"required"} /\ Blank(vIn[1].value))
       => vOut[1].valid)

\* C8, amended: every validator other than required and custom_code (regex,
\* enum, range, date_format, email, phone, url, country, state, llm_review)
\* answers an empty value with valid: true and proposes nothing, so an empty
\* field gets no Issue from such a rule; custom_code does so when params.fn
\* is absent, and otherwise leaves the answer to the registry lookup and the
\* registered function.
C8_EmptyIsValid ==
  vOut # <<>> =>
    /\ (vIn[1].validator \in ValidatorKeys \ {"required", "custom_code"}
          /\ Blank(vIn[1].value))
         => vOut[1] = Valid
    /\ (vIn[1].validator = "custom_code" /\ vIn[1].params.fn = "")
         => vOut[1] = Valid

C8_Witness ==
  /\ vOut # <<>>
  /\ vIn[1].validator = "email" /\ vIn[1].value = Str(<<" ", " ">>)
  /\ vOut[1].valid

\* the stages of the enum resolution, stated on the trimmed text
EnumText(x) == trim(toStr(x.value))
EnumDistances(x) ==
  {levenshtein(toLowerCase(EnumText(x)), toLowerCase(a)) : a \in Range(x.params.allowed)}
EnumMaxDistance(x) ==
  IF x.options.fuzzyMaxDistance = <<>> THEN 2 ELSE x.options.fuzzyMaxDistance[1]
\* the values the synonym map gives the text, keys compared without case
SynonymTargets(x) ==
  {x.params.synonyms[k][2] : k \in
     {j \in 1..Len(x.params.synonyms) :
        toLowerCase(x.params.synonyms[j][1]) = toLowerCase(EnumText(x))}}

EnumPrecedence(x, r) ==
  IF EnumText(x) \in Range(x.params.allowed)
  THEN r.valid /\ r.normalized = Str(EnumText(x))
  ELSE IF SynonymTargets(x) # {}
  THEN r.valid /\ r.normalized \in {Str(t) : t \in SynonymTargets(x)}
  ELSE IF \E d \in EnumDistances(x) : d <= EnumMaxDistance(x)
  THEN /\ r.valid
       /\ \E a \in Range(x.params.allowed) :
            /\ r.normalized = Str(a)
            /\ \A d \in EnumDistances(x) :
                 levenshtein(toLowerCase(EnumText(x)), toLowerCase(a)) <= d
  ELSE ~r.valid

\* C9: the enum validator resolves a non-empty value by exact membership of
\* allowed, else by the synonym map (keys without case), else by the nearest
\* allowed value within fuzzyMaxDistance (default 2), else invalid; an earlier
\* stage that matches always decides.
C9_EnumPrecedence ==
  (vOut # <<>> /\ vIn[1].validator = "enum" /\ ~Blank(vIn[1].value))
    => EnumPrecedence(vIn[1], vOut[1])

\* the same, for synonym maps whose targets are all non-empty strings
EnumPrecedenceOfNonEmptyTargets ==
  (/\ vOut # <<>> /\ vIn[1].validator = "enum" /\ ~Blank(vIn[1].value)
   /\ \A k \in 1..Len(vIn[1].params.synonyms) : vIn[1].params.synonyms[k][2] # <<>>)
    => EnumPrecedence(vIn[1], vOut[1])

\* ------------------------------------------------------------------------
\* Properties of applyRow: auto-fix writes, required
\* ------------------------------------------------------------------------
\* the invocations of auto_fix rules whose validator returned valid with a
\* normalized value
SilentFixes ==
  {n \in 1..Len(calls) :
     /\ Strategy(ruleSet[calls[n].rule]) = "auto_fix"
     /\ calls[n].vr.valid /\ calls[n].vr.normalized # Undef}

\* C11 as stated: under an auto_fix rule, a valid result with a normalized
\* value is written into the normalized row and gives no Issue.
C11_AsStated ==
  \A n \in SilentFixes :
    /\ calls[n].after = Put(calls[n].before, calls[n].field, calls[n].vr.normalized)
    /\ calls[n].emitted = <<>>

\* C11, amended: under an auto_fix rule, a valid result with a normalized
\* value is written into the normalized row; it gives no Issue when the
\* result carries no suggestion, and one Issue (without suggestion) when it
\* does.
C11_AutoFixWrites ==
  \A n \in SilentFixes :
    /\ calls[n].after = Put(calls[n].before, calls[n].field, calls[n].vr.normalized)
    /\ Get(calls[n].after, calls[n].field) = calls[n].vr.normalized
    /\ calls[n].vr.suggestion = Undef => calls[n].emitted = <<>>
    /\ calls[n].vr.suggestion # Undef =>
         /\ Len(calls[n].emitted) = 1
         /\ calls[n].emitted[1].suggestion = Undef

\* an email rule with auto_fix has turned a mixed-case address into its
\* lowercase form, and the row came back with no Issue
C11_Witness ==
  /\ pc = "done" /\ pass = 1
  /\ \E n \in SilentFixes :
       /\ ruleSet[calls[n].rule].validator = "email"
       /\ calls[n].val = Str(<<"A", "@", "c">>)
       /\ Get(heap[out[calls[n].row + 1].normalizedRow], "email") = Str(<<"a", "@", "c">>)
       /\ out[calls[n].row + 1].issues = <<>>

\* the invocations of required rules
RequiredCalls == {n \in 1..Len(calls) : ruleSet[calls[n].rule].validator = "required"}

\* C12: a required rule gives exactly one Issue for a field that is absent,
\* empty or blank, with the rule's severity (warning by default) and no
\* suggestion, and no Issue for a field that has a value; a rule is applied
\* to a field once per row.
C12_RequiredIssue ==
  /\ \A n \in RequiredCalls :
       LET c == calls[n] IN
       IF Blank(c.val)
       THEN /\ Len(c.emitted) = 1
            /\ c.emitted[1].severity =
                 (IF ruleSet[c.rule].severity = "" THEN "warning"
                  ELSE ruleSet[c.rule].severity)
            /\ c.emitted[1].suggestion = Undef
            /\ c.emitted[1].field = c.field
            /\ c.emitted[1].ruleId = ruleSet[c.rule].id
       ELSE c.emitted = <<>>
  /\ \A n, m \in RequiredCalls :
       (calls[n].pass = calls[m].pass /\ calls[n].row = calls[m].row
        /\ calls[n].rule = calls[m].rule /\ calls[n].field = calls[m].field) => n = m
  /\ IssuesAreTheEmitted

\* required has met a field without value under a rule that sets no
\* severity, and a field that has a value
C12_Witness ==
  /\ pc = "done"
  /\ \E n \in RequiredCalls :
       /\ calls[n].val = Undef /\ ruleSet[calls[n].rule].severity = ""
       /\ Len(calls[n].emitted) = 1 /\ calls[n].emitted[1].severity = "warning"
       /\ Len(out[calls[n].row + 1].issues) = 1
  /\ \E n \in RequiredCalls : ~Blank(calls[n].val) /\ calls[n].emitted = <<>>

\* ------------------------------------------------------------------------
\* Properties of the validators: confidence
\* ------------------------------------------------------------------------
\* a confidence that is absent or lies in [0, 1]
InUnitInterval(c) == c = NoConf \/ (FracLeq(Frac(0, 1), c) /\ FracLeq(c, Frac(1, 1)))

\* the Issue applyRow builds from the validator's result under a suggest_only rule
IssueOf(x, r) ==
  MakeIssue(Rule("v", <<"cat">>, x.validator, x.params, "suggest_only", "", TRUE),
            "cat", 0, r)

DeliveredOf(p) == SelectSeq(delivered, LAMBDA d : d.pass = p)

\* the normalized row applyRow had reached for row r of call p when it returned
LastRowOf(p, r) ==
  IF CallsOfRow(p, r) = {} THEN given[r + 1] ELSE calls[Max(CallsOfRow(p, r))].after

\* C14: applyChunk takes the rows one after the other in input order; a row
\* is started only when the results of all earlier rows are in out and, when
\* a callback was passed, have been handed to it once each with their index;
\* at the end out holds one result per row in input order.
C14_SequentialInOrder ==
  pc \in {"loop", "rules", "fields", "done"} =>
    /\ Len(out) = i /\ i <= Len(rows)
    /\ normalized = 0 <=> pc \in {"loop", "done"}
    /\ pc = "done" => Len(out) = Len(rows)
    /\ \A k \in 1..Len(out) :
         /\ heap[out[k].normalizedRow] = LastRowOf(pass, k - 1)
         /\ out[k].issues = EmittedUpTo(pass, k - 1, Len(calls))
         /\ \A j \in 1..Len(out[k].issues) : out[k].issues[j].rowId = k - 1
    /\ DeliveredOf(pass) =
         IF onResult
         THEN [k \in 1..Len(out) |-> [res |-> out[k], index |-> k - 1, pass |-> pass]]
         ELSE <<>>
    /\ \A n \in 1..Len(calls) :
         calls[n].pass = pass =>
           /\ calls[n].row <= i
           /\ calls[n].row = i => normalized # 0
           /\ \A m \in 1..n : calls[m].pass = pass => calls[m].row <= calls[n].row

\* a chunk of two different rows has been processed with a callback, and
\* both rows gave Issues
C14_Witness ==
  /\ pc = "done" /\ pass = 1 /\ onResult
  /\ Len(rows) = 2 /\ given[1] # given[2]
  /\ Len(DeliveredOf(1)) = 2
  /\ out[1].issues # <<>> /\ out[2].issues # <<>> /\ out[1].issues # out[2].issues



\* applyRow as a function of the rule set, the options, the row and its id
applyRow(rules, opts, row, rowId) ==
  LET \* the inner loop over the fields of one rule
      RECURSIVE applyRowFields(_, _, _)
      applyRowFields(rule, flds, st) ==
        IF flds = <<>> THEN st
        ELSE LET field == Head(flds)
                 val == Get(st.normalizedRow, field)
                 vr == applyRule(rule, val, st.normalizedRow, opts)
             IN applyRowFields(rule, Tail(flds),
                  [normalizedRow |->
                     IF Writes(rule, vr) THEN Put(st.normalizedRow, field, vr.normalized)
                     ELSE st.normalizedRow,
                   issues |->
                     IF Emits(rule, vr) THEN Append(st.issues, MakeIssue(rule, field, rowId, vr))
                     ELSE st.issues])
      \* the outer loop over the enabled rules
      RECURSIVE applyRowRules(_, _)
      applyRowRules(rs, st) ==
        IF rs = <<>> THEN st
        ELSE applyRowRules(Tail(rs),
               IF Head(rs).enabled
               THEN applyRowFields(Head(rs),
                                   expandFields(Head(rs).appliesTo, st.normalizedRow), st)
               ELSE st)
  IN applyRowRules(rules, [normalizedRow |-> row, issues |-> <<>>])

\* C15: the result applyChunk holds for row k is the result of applyRow on
\* that row and index alone, whatever the other rows of the chunk are.
C15_RowsIndependent ==
  \A k \in 1..Len(out) :
    [normalizedRow |-> heap[out[k].normalizedRow], issues |-> out[k].issues]
      = applyRow(ruleSet, options, given[k], k - 1)

\* a second row has been processed after a first row that was fixed and gave
\* Issues, and its result has Issues of its own
C15_Witness ==
  /\ pc = "done" /\ pass = 1 /\ Len(rows) = 2
  /\ out[1].issues # <<>>
  /\ heap[out[1].normalizedRow] # given[1]
  /\ out[2].issues # <<>>
  /\ heap[out[2].normalizedRow] # given[2]

\* ------------------------------------------------------------------------
\* SchemaMapper (components/SchemaMapper.tsx)
\* ------------------------------------------------------------------------
\* the variables of the rules engine, but for pc
engineVars ==
  <<ruleSet, options, input, heap, rows, given, onResult, out, i, normalized, issues,
    ruleIdx, fields, calls, delivered, pass, firstOut, vIn, vOut>>

\* no engine in use
engineIdle ==
  /\ ruleSet = <<>> /\ options = DefaultOptions /\ input = <<>>
  /\ heap = <<>> /\ rows = <<>> /\ given = <<>> /\ onResult = FALSE
  /\ out = <<>> /\ i = 0
  /\ normalized = 0 /\ issues = <<>> /\ ruleIdx = 0 /\ fields = <<>>
  /\ calls = <<>> /\ delivered = <<>> /\ pass = 1 /\ firstOut = <<>>
  /\ vValidatorIdle

\* a.includes(b)
includes(a, b) ==
  \E k \in 0..(Len(a) - Len(b)) : SubSeq(a, k + 1, k + Len(b)) = b

\* parts.join(sep)
RECURSIVE join(_, _)
join(parts, sep) ==
  IF parts = <<>> THEN <<>>
  ELSE IF Len(parts) = 1 THEN parts[1]
  ELSE parts[1] \o sep \o join(Tail(parts), sep)

\* norm(x): String(x||'').toLowerCase().replace(/[^a-z0-9]+/g,'')
norm(x) ==
  LET
      \* SchemaMapper: strings
      Digits == {"0", "1", "2", "3", "4", "5", "6", "7", "8", "9"}
      LowerLetters ==
        {"a", "b", "c", "d", "e", "f", "g", "h", "i", "j", "k", "l", "m", "n", "o", "p", "q",
         "r", "s", "t", "u", "v", "w", "x", "y", "z"}
      \* s.replace(/[^a-z0-9]+/g, '')
      RECURSIVE keepLowerAlnum(_)
      keepLowerAlnum(s) ==
        IF s = <<>> THEN <<>>
        ELSE IF Head(s) \in LowerLetters \cup Digits
             THEN <<Head(s)>> \o keepLowerAlnum(Tail(s))
             ELSE keepLowerAlnum(Tail(s))
  IN
    keepLowerAlnum(toLowerCase(x))

\* detectType, its score object; legacy: whether Date.parse accepts a string
\* of digits; server: the copy of detectType in localHeuristic (part_010),
\* whose boolean pattern has no y and n and whose score has no unknown
typeScore(values, legacy, server) ==
  LET
      \* SchemaMapper: strings
      Digits == {"0", "1", "2", "3", "4", "5", "6", "7", "8", "9"}
      LowerLetters ==
        {"a", "b", "c", "d", "e", "f", "g", "h", "i", "j", "k", "l", "m", "n", "o", "p", "q",
         "r", "s", "t", "u", "v", "w", "x", "y", "z"}
      \* the upper-case letters the enumerated inputs use (see LowerChar)
      UpperLetters == {"A", "C", "U", "S"}
      \* \w and \s
      WordChars == LowerLetters \cup UpperLetters \cup Digits \cup {"_"}
      SpaceChars == {" "}
      \* a.startsWith(b)
      startsWith(a, b) == Len(b) <= Len(a) /\ SubSeq(a, 1, Len(b)) = b
      \* SchemaMapper: detectType
      AllIn(s, S) == \A k \in 1..Len(s) : s[k] \in S
      Unsigned(v) == IF v # <<>> /\ v[1] \in {"+", "-"} THEN Tail(v) ELSE v
      After(v, k) == SubSeq(v, k + 1, Len(v))
      Before(v, k) == SubSeq(v, 1, k - 1)
      \* /^(true|false|yes|no|y|n|0|1)$/i, server: /^(true|false|yes|no|0|1)$/i
      boolRe(v) ==
        \/ toLowerCase(v) \in {<<"t", "r", "u", "e">>, <<"f", "a", "l", "s", "e">>, <<"y", "e", "s">>, <<"n", "o">>, <<"0">>, <<"1">>}
        \/ ~server /\ toLowerCase(v) \in {<<"y">>, <<"n">>}
      \* /^[+-]?\d+$/
      intRe(v) == Unsigned(v) # <<>> /\ AllIn(Unsigned(v), Digits)
      \* /^[+-]?\d*\.\d+$/
      floatRe(v) ==
        LET r == Unsigned(v)
        IN \E k \in 1..Len(r) :
             /\ r[k] = "." /\ AllIn(Before(r, k), Digits)
             /\ After(r, k) # <<>> /\ AllIn(After(r, k), Digits)
      \* YYYY-MM-DD
      IsoDate(v) ==
        /\ Len(v) = 10 /\ v[5] = "-" /\ v[8] = "-"
        /\ AllIn(SubSeq(v, 1, 4) \o SubSeq(v, 6, 7) \o SubSeq(v, 9, 10), Digits)
        /\ SubSeq(v, 6, 7) \in {<<"0", d>> : d \in Digits \ {"0"}} \cup {<<"1", "0">>, <<"1", "1">>, <<"1", "2">>}
        /\ SubSeq(v, 9, 10) \in
             ({<<a, b>> : a \in {"0", "1", "2"}, b \in Digits} \ {<<"0", "0">>})
               \cup {<<"3", "0">>, <<"3", "1">>}
        /\ SubSeq(v, 9, 10) \in {<<"3", "0">>, <<"3", "1">>} => SubSeq(v, 6, 7) # <<"0", "2">>
        /\ SubSeq(v, 9, 10) = <<"3", "1">> => SubSeq(v, 6, 7) \notin {<<"0", "4">>, <<"0", "6">>, <<"0", "9">>, <<"1", "1">>}
      \* !Number.isNaN(Date.parse(v)): the ISO format is specified; what a string
      \* of digits parses to is left to the implementation (legacy); the other
      \* strings the inputs hold are no dates
      DateParses(v) ==
        \/ IsoDate(v)
        \/ legacy /\ v # <<>> /\ AllIn(v, Digits)
      NoSpaceNoAt(s) == \A k \in 1..Len(s) : s[k] \notin SpaceChars \cup {"@"}
      \* /^[^\s@]+@[^\s@]+\.[^\s@]{2,}$/i
      emailRe(v) ==
        \E k \in 2..Len(v) :
          /\ v[k] = "@" /\ NoSpaceNoAt(Before(v, k)) /\ NoSpaceNoAt(After(v, k))
          /\ \E j \in 2..(Len(After(v, k)) - 2) : After(v, k)[j] = "."
      \* /^(https?:\/\/)?([\w-]+\.)+[\w-]{2,}(\/.*)?$/i
      urlRe(v) ==
        LET a == IF startsWith(toLowerCase(v), <<"h", "t", "t", "p", "s", ":", "/", "/">>) THEN After(v, 8)
                 ELSE IF startsWith(toLowerCase(v), <<"h", "t", "t", "p", ":", "/", "/">>) THEN After(v, 7)
                 ELSE v
            slashes == {k \in 1..Len(a) : a[k] = "/"}
            h == IF slashes = {} THEN a
                 ELSE Before(a, CHOOSE k \in slashes : \A j \in slashes : k <= j)
            dots == {k \in 1..Len(h) : h[k] = "."}
        IN /\ AllIn(h, WordChars \cup {"-", "."})
           /\ dots # {}
           /\ 1 \notin dots
           /\ \A k \in dots : k + 1 \notin dots
           /\ \A k \in dots : k <= Len(h) - 2 \/ \E j \in dots : j > k
      \* (?:\d[\s-]?){6,14}\d
      PhoneBody(r) ==
        /\ r # <<>> /\ r[1] \in Digits /\ r[Len(r)] \in Digits
        /\ AllIn(r, Digits \cup SpaceChars \cup {"-"})
        /\ \A k \in 1..(Len(r) - 1) : r[k] \in Digits \/ r[k + 1] \in Digits
        /\ Cardinality({k \in 1..Len(r) : r[k] \in Digits}) \in 7..15
      \* /^[+\d]?\s*(?:\d[\s-]?){6,14}\d$/
      phoneRe(v) ==
        \/ PhoneBody(trimStart(v))
        \/ v # <<>> /\ v[1] \in Digits \cup {"+"} /\ PhoneBody(trimStart(Tail(v)))
      \* (,\d{3})*
      RECURSIVE ThousandsGroups(_)
      ThousandsGroups(s) ==
        \/ s = <<>>
        \/ /\ Len(s) >= 4 /\ s[1] = "," /\ AllIn(SubSeq(s, 2, 4), Digits)
           /\ ThousandsGroups(After(s, 4))
      \* \d{1,3}(,\d{3})*(\.\d{1,2})?
      GroupedAmount(s) ==
        LET dots == {k \in 1..Len(s) : s[k] = "."}
            whole == IF dots = {} THEN s ELSE Before(s, CHOOSE k \in dots : TRUE)
            cents == IF dots = {} THEN <<>> ELSE After(s, CHOOSE k \in dots : TRUE)
        IN /\ Cardinality(dots) <= 1
           /\ dots # {} => Len(cents) \in 1..2 /\ AllIn(cents, Digits)
           /\ \E k \in 1..3 :
                /\ k <= Len(whole) /\ AllIn(SubSeq(whole, 1, k), Digits)
                /\ ThousandsGroups(After(whole, k))
      \* ^\d+(\.\d{2})?$
      PlainAmount(s) ==
        \/ s # <<>> /\ AllIn(s, Digits)
        \/ /\ Len(s) >= 4 /\ s[Len(s) - 2] = "."
           /\ AllIn(Before(s, Len(s) - 2), Digits) /\ AllIn(After(s, Len(s) - 2), Digits)
      \* /^[$€£¥]\s?\d{1,3}(,\d{3})*(\.\d{1,2})?$|^\d+(\.\d{2})?$/
      currencyRe(v) ==
        \/ /\ v # <<>> /\ v[1] \in {"$", "€", "£", "¥"}
           /\ \/ GroupedAmount(Tail(v))
              \/ Len(v) >= 2 /\ v[2] \in SpaceChars /\ GroupedAmount(After(v, 2))
        \/ PlainAmount(v)
      \* values.map(v => v.trim()).filter(v => v.length > 0)
      RECURSIVE cleanValues(_)
      cleanValues(vs) ==
        IF vs = <<>> THEN <<>>
        ELSE (IF trim(Head(vs)) = <<>> THEN <<>> ELSE <<trim(Head(vs))>>)
               \o cleanValues(Tail(vs))
      clean == cleanValues(values)
      n == IF Len(clean) = 0 THEN 1 ELSE Len(clean)
      unique == Cardinality({toLowerCase(clean[k]) : k \in 1..Len(clean)})
      count(P(_)) == Cardinality({k \in 1..Len(clean) : P(clean[k])})
  IN    [string |-> Frac(0, 1), integer |-> Frac(count(intRe), n),
         float |-> Frac(count(floatRe), n), boolean |-> Frac(count(boolRe), n),
         date |-> Frac(count(DateParses), n), email |-> Frac(count(emailRe), n),
         phone |-> Frac(count(phoneRe), n), url |-> Frac(count(urlRe), n),
         currency |-> Frac(count(currencyRe), n),
         enum |-> IF n >= 5 /\ unique * 5 < n THEN Frac(4, 5) ELSE Frac(0, 1),
         unknown |-> Frac(0, 1)]

\* Object.entries(score).sort(...)[0]: the first key of the greatest score,
\* the keys in the order the object literal lists them
rankedFirst(score, server) ==
  LET InferredTypes ==
        <<"string", "integer", "float", "boolean", "date", "email", "phone", "url", "currency",
          "enum">> \o (IF server THEN <<>> ELSE <<"unknown">>)
      top == CHOOSE k \in 1..Len(InferredTypes) :
               /\ \A j \in 1..Len(InferredTypes) :
                    FracLeq(score[InferredTypes[j]], score[InferredTypes[k]])
               /\ \A j \in 1..(k - 1) :
                    ~FracLeq(score[InferredTypes[k]], score[InferredTypes[j]])
  IN [type |-> InferredTypes[top], confidence |-> score[InferredTypes[top]]]

\* detectType without its last statement
detectTypeUnfloored(values, legacy) ==
  rankedFirst(typeScore(values, legacy, FALSE), FALSE)
\* detectType(values) of the component
detectType(values, legacy) ==
  LET first == rankedFirst(typeScore(values, legacy, FALSE), FALSE)
  IN IF ~FracLeq(Frac(3, 10), first.confidence)
     THEN [type |-> "string", confidence |-> Frac(3, 10)]
     ELSE first
\* detectType(values) of localHeuristic
serverDetectType(values, legacy) ==
  LET first == rankedFirst(typeScore(values, legacy, TRUE), TRUE)
  IN IF ~FracLeq(Frac(3, 10), first.confidence)
     THEN [type |-> "string", confidence |-> Frac(3, 10)]
     ELSE first

\* SchemaMapper: inferColumn, mergeGemini
\* CANON_SETS, each name as its sequence of characters
CANON_SETS ==
  [ general |->
    << <<"i", "d">>,
       <<"c", "r", "e", "a", "t", "e", "d", "_", "a", "t">>,
       <<"u", "p", "d", "a", "t", "e", "d", "_", "a", "t">>,
       <<"n", "a", "m", "e">>,
       <<"t", "i", "t", "l", "e">>,
       <<"f", "i", "r", "s", "t", "_", "n", "a", "m", "e">>,
       <<"l", "a", "s", "t", "_", "n", "a", "m", "e">>,
       <<"c", "o", "m", "p", "a", "n", "y", "_", "n", "a", "m", "e">>,
       <<"c", "o", "m", "p", "a", "n", "y", "_", "w", "e", "b", "s", "i", "t", "e">>,
       <<"e", "m", "a", "i", "l">>,
       <<"p", "h", "o", "n", "e">>,
       <<"c", "o", "u", "n", "t", "r", "y">>,
       <<"s", "t", "a", "t", "e">>,
       <<"c", "i", "t", "y">>,
       <<"z", "i", "p">>,
       <<"a", "d", "d", "r", "e", "s", "s">>,
       <<"a", "d", "d", "r", "e", "s", "s", "_", "l", "i", "n", "e", "1">>,
       <<"a", "d", "d", "r", "e", "s", "s", "_", "l", "i", "n", "e", "2">>,
       <<"w", "e", "b", "s", "i", "t", "e">>,
       <<"d", "o", "m", "a", "i", "n">>,
       <<"l", "i", "n", "k", "e", "d", "i", "n", "_", "u", "r", "l">>,
       <<"n", "o", "t", "e", "s">>,
       <<"s", "t", "a", "t", "u", "s">>,
       <<"s", "t", "a", "g", "e">>,
       <<"o", "w", "n", "e", "r">>,
       <<"s", "o", "u", "r", "c", "e">> >>,
    leads |->
    << <<"c", "o", "n", "t", "a", "c", "t", "_", "n", "a", "m", "e">>,
       <<"f", "i", "r", "s", "t", "_", "n", "a", "m", "e">>,
       <<"l", "a", "s", "t", "_", "n", "a", "m", "e">>,
       <<"j", "o", "b", "_", "t", "i", "t", "l", "e">>,
       <<"d", "e", "p", "a", "r", "t", "m", "e", "n", "t">>,
       <<"c", "o", "m", "p", "a", "n", "y", "_", "n", "a", "m", "e">>,
       <<"c", "o", "m", "p", "a", "n", "y", "_", "d", "o", "m", "a", "i", "n">>,
       <<"c", "o", "m", "p", "a", "n", "y", "_", "w", "e", "b", "s", "i", "t", "e">>,
       <<"l", "i", "n", "k", "e", "d", "i", "n", "_", "u", "r", "l">>,
       <<"e", "m", "a", "i", "l">>,
       <<"p", "h", "o", "n", "e">>,
       <<"c", "o", "u", "n", "t", "r", "y">>,
       <<"s", "t", "a", "t", "e">>,
       <<"c", "i", "t", "y">>,
       <<"z", "i", "p">>,
       <<"a", "d", "d", "r", "e", "s", "s", "_", "l", "i", "n", "e", "1">>,
       <<"a", "d", "d", "r", "e", "s", "s", "_", "l", "i", "n", "e", "2">>,
       <<"g", "r", "o", "w", "t", "h", "_", "i", "n", "t", "e", "n", "t">>,
       <<"c", "a", "s", "h", "_", "r", "u", "n", "w", "a", "y">>,
       <<"g", "t", "m", "_", "t", "r", "a", "c", "t", "i", "o", "n">>,
       <<"o", "p", "s", "_", "m", "a", "t", "u", "r", "i", "t", "y">>,
       <<"d", "e", "c", "i", "s", "i", "o", "n", "_", "r", "e", "a", "d", "i", "n", "e", "s", "s">>,
       <<"e", "n", "g", "a", "g", "e", "m", "e", "n", "t", "_", "1", "_", "1">>,
       <<"q", "n", "a", "_", "s", "u", "b", "s", "t", "a", "n", "t", "i", "v", "e">>,
       <<"r", "e", "q", "u", "e", "s", "t", "e", "d", "_", "f", "o", "l", "l", "o", "w", "_", "u", "p">>,
       <<"n", "e", "x", "t", "_", "s", "t", "e", "p", "s">>,
       <<"s", "c", "o", "r", "e">>,
       <<"s", "t", "a", "t", "u", "s">>,
       <<"s", "t", "a", "g", "e">>,
       <<"o", "w", "n", "e", "r">>,
       <<"s", "o", "u", "r", "c", "e">>,
       <<"c", "r", "e", "a", "t", "e", "d", "_", "a", "t">>,
       <<"l", "a", "s", "t", "_", "c", "o", "n", "t", "a", "c", "t", "e", "d", "_", "a", "t">>,
       <<"w", "e", "b", "s", "i", "t", "e">> >>,
    insurance |->
    << <<"i", "n", "s", "u", "r", "e", "d", "_", "n", "a", "m", "e">>,
       <<"p", "o", "l", "i", "c", "y", "_", "n", "u", "m", "b", "e", "r">>,
       <<"p", "o", "l", "i", "c", "y", "_", "t", "y", "p", "e">>,
       <<"e", "f", "f", "e", "c", "t", "i", "v", "e", "_", "d", "a", "t", "e">>,
       <<"e", "x", "p", "i", "r", "a", "t", "i", "o", "n", "_", "d", "a", "t", "e">>,
       <<"p", "r", "e", "m", "i", "u", "m">>,
       <<"n", "a", "i", "c">>,
       <<"v", "i", "n">>,
       <<"a", "d", "d", "r", "e", "s", "s", "_", "l", "i", "n", "e", "1">>,
       <<"a", "d", "d", "r", "e", "s", "s", "_", "l", "i", "n", "e", "2">>,
       <<"c", "i", "t", "y">>,
       <<"s", "t", "a", "t", "e">>,
       <<"z", "i", "p">>,
       <<"c", "o", "u", "n", "t", "r", "y">>,
       <<"e", "m", "a", "i", "l">>,
       <<"p", "h", "o", "n", "e">>,
       <<"c", "o", "m", "p", "a", "n", "y", "_", "n", "a", "m", "e">>,
       <<"w", "e", "b", "s", "i", "t", "e">> >> ]

\* pickCanon(ruleSetId); <<>> is no ruleSetId
pickCanon(ruleSetId) ==
  LET k == toLowerCase(ruleSetId)
  IN IF ruleSetId = <<>> THEN CANON_SETS.general
     ELSE IF includes(k, <<"l", "e", "a", "d">>) \/ includes(k, <<"c", "r", "m">>) THEN CANON_SETS.leads
     ELSE IF includes(k, <<"i", "n", "s", "u", "r">>) \/ includes(k, <<"p", "o", "l", "i", "c", "y">>) THEN CANON_SETS.insurance
     ELSE CANON_SETS.general

\* headerScore(a, b)
headerScore(a, b) ==
  LET
      \* tri(s): the set of s.slice(i, i + 3) for i < max(1, s.length - 2)
      tri(s) ==
        LET last == IF Len(s) - 2 > 1 THEN Len(s) - 2 ELSE 1
        IN {SubSeq(s, k + 1, IF k + 3 < Len(s) THEN k + 3 ELSE Len(s)) : k \in 0..(last - 1)}
  IN
    IF a = b THEN Frac(1, 1)
    ELSE IF includes(a, b) \/ includes(b, a) THEN Frac(4, 5)
    ELSE LET inter == Cardinality(tri(a) \cap tri(b))
             uni == Cardinality(tri(a) \cup tri(b))
         IN Frac(inter, IF uni = 0 THEN 1 ELSE uni)

\* valueHeuristics(values): the hints the first 50 values give
valueHeuristics(values) ==
  LET
      \* SchemaMapper: strings
      Digits == {"0", "1", "2", "3", "4", "5", "6", "7", "8", "9"}
      LowerLetters ==
        {"a", "b", "c", "d", "e", "f", "g", "h", "i", "j", "k", "l", "m", "n", "o", "p", "q",
         "r", "s", "t", "u", "v", "w", "x", "y", "z"}
      \* the upper-case letters the enumerated inputs use (see LowerChar)
      UpperLetters == {"A", "C", "U", "S"}
      \* \w and \s
      WordChars == LowerLetters \cup UpperLetters \cup Digits \cup {"_"}
      \* q.slice(0, n)
      slice0(q, n) == SubSeq(q, 1, IF Len(q) < n THEN Len(q) ELSE n)
      \* a regular expression's literal w somewhere in text, optionally with a word
      \* boundary (\b) before and after it
      IsBoundary(text, k) ==
        \* between text[k] and text[k + 1]
        LET left == k >= 1 /\ text[k] \in WordChars
            right == k + 1 <= Len(text) /\ text[k + 1] \in WordChars
        IN left # right
      Occurs(text, w, boundBefore, boundAfter) ==
        \E k \in 0..(Len(text) - Len(w)) :
          /\ SubSeq(text, k + 1, k + Len(w)) = w
          /\ boundBefore => IsBoundary(text, k)
          /\ boundAfter => IsBoundary(text, k + Len(w))
      Hint(matches, target, delta, reason) ==
        IF matches THEN <<[target |-> target, delta |-> delta, reason |-> reason]>> ELSE <<>>
      text == toLowerCase(join(slice0(values, 50), <<" ", "|", " ">>))
      ends(w) == Occurs(text, w, FALSE, TRUE)
      has(w) == Occurs(text, w, FALSE, FALSE)
      word(w) == Occurs(text, w, TRUE, TRUE)
  IN Hint(ends(<<"s", "t", "r", "o", "n", "g">>) \/ ends(<<"w", "e", "a", "k">>) \/ ends(<<"m", "i", "x", "e", "d">>),
          <<"g", "t", "m", "_", "t", "r", "a", "c", "t", "i", "o", "n">>, Frac(7, 20), "values look like GTM traction")
     \o Hint(ends(<<"h", "i", "g", "h">>) \/ ends(<<"p", "a", "r", "t", "i", "a", "l">>) \/ ends(<<"a", "d", "h", "o", "c">>)
               \/ ends(<<"a", "d", "-", "h", "o", "c">>),
             <<"o", "p", "s", "_", "m", "a", "t", "u", "r", "i", "t", "y">>, Frac(7, 20), "values look like Ops maturity")
     \o Hint(has(<<"c", "l", "e", "a", "r", " ", "i", "n", "t", "e", "n", "t">>) \/ has(<<"n", "o", " ", "p", "l", "a", "n">>) \/ has(<<"e", "x", "p", "l", "o", "r", "i", "n", "g">>)
               \/ word(<<"i", "n", "t", "e", "n", "t">>),
             <<"g", "r", "o", "w", "t", "h", "_", "i", "n", "t", "e", "n", "t">>, Frac(7, 20), "values mention intent")
     \o Hint(has(<<"p", "o", "s", "i", "t", "i", "v", "e">>) \/ has(<<"n", "e", "g", "a", "t", "i", "v", "e">>) \/ has(<<"b", "r", "e", "a", "k", "e", "v", "e", "n">>)
               \/ has(<<"b", "r", "e", "a", "k", "-", "e", "v", "e", "n">>) \/ word(<<"m", "o">>),
             <<"c", "a", "s", "h", "_", "r", "u", "n", "w", "a", "y">>, Frac(3, 10), "values look like cash/runway bands")
     \o Hint(has(<<"d", "e", "c", "i", "s", "i", "o", "n", " ", "m", "a", "k", "e", "r">>) \/ has(<<"i", "n", "f", "l", "u", "e", "n", "c", "e", "r">>) \/ has(<<"e", "n", "g", "a", "g", "e", "d">>)
               \/ has(<<"n", "o", " ", "c", "l", "a", "r", "i", "t", "y">>),
             <<"d", "e", "c", "i", "s", "i", "o", "n", "_", "r", "e", "a", "d", "i", "n", "e", "s", "s">>, Frac(3, 10), "values about decision roles/readiness")
     \o Hint(ends(<<"y", "e", "s">>) \/ ends(<<"n", "o">>),
             <<"e", "n", "g", "a", "g", "e", "m", "e", "n", "t", "_", "1", "_", "1">>, Frac(3, 20), "yes/no answers detected")

\* the pre-selection threshold of inferColumn: 0.6
Gate == Frac(3, 5)

\* the gate set at 0.4
preselectLowGate(scored) == scored # <<>> /\ FracLeq(Frac(2, 5), scored[1].score)
\* best && best.score >= 0.6
preselect(scored) == scored # <<>> /\ FracLeq(Gate, scored[1].score)

\* the candidates with their scores, best first: header similarity, the
\* boosts of the value heuristics, the sort
scoreCandidates(name, values, canonicalFields) ==
  LET
      \* fractions: sum and equality (see Frac)
      FracAdd(x, y) == Frac(x[1] * y[2] + y[1] * x[2], x[2] * y[2])
      \* for (const b of boost): the first candidate named b.target gets the delta
      RECURSIVE applyBoosts(_, _)
      applyBoosts(scored, boost) ==
        IF boost = <<>> THEN scored
        ELSE LET b == Head(boost)
                 hits == {k \in 1..Len(scored) : scored[k].f = b.target}
                 hit == CHOOSE k \in hits : \A j \in hits : k <= j
             IN applyBoosts(
                  IF hits = {} THEN scored
                  ELSE [scored EXCEPT ![hit] =
                          [f |-> scored[hit].f, score |-> FracAdd(scored[hit].score, b.delta),
                           reason |-> b.reason]],
                  Tail(boost))
      \* scored.sort((a, b) => b.score - a.score): stable, greatest first
      RECURSIVE sortByScore(_)
      sortByScore(q) ==
        IF q = <<>> THEN <<>>
        ELSE LET k == CHOOSE k \in 1..Len(q) :
                        /\ \A j \in 1..Len(q) : FracLeq(q[j].score, q[k].score)
                        /\ \A j \in 1..(k - 1) : ~FracLeq(q[k].score, q[j].score)
             IN <<q[k]>> \o sortByScore(SubSeq(q, 1, k - 1) \o SubSeq(q, k + 1, Len(q)))
      s == norm(name)
      scored == [k \in 1..Len(canonicalFields) |->
                   [f |-> canonicalFields[k],
                    score |-> headerScore(s, norm(canonicalFields[k])),
                    reason |-> "header similarity"]]
  IN sortByScore(applyBoosts(scored, valueHeuristics(values)))

\* inferColumn(name, values) over the canonical fields in use
inferColumn(name, values, canonicalFields, legacy) ==
  LET
      \* q.slice(0, n)
      slice0(q, n) == SubSeq(q, 1, IF Len(q) < n THEN Len(q) ELSE n)
      \* (x * 100) | 0 for x >= 0
      Percent(x) == (x[1] * 100) \div x[2]
      \* the one-character string name || '\u2014' falls back to
      EmDash == <<"--">>
      t == detectType(values, legacy)
      scored == scoreCandidates(name, values, canonicalFields)
      top5 == slice0(scored, 5)
  IN [source |-> IF name = <<>> THEN EmDash ELSE name,
      type |-> t.type,
      confidence |-> t.confidence,
      samples |-> slice0(values, 5),
      suggestTargets |-> [k \in 1..Len(top5) |-> top5[k].f],
      target |-> IF preselect(scored) THEN Str(scored[1].f) ELSE Str(name),
      reason |-> IF preselect(scored)
                 THEN [text |-> scored[1].reason, percent |-> Percent(scored[1].score)]
                 ELSE [text |-> "source header", percent |-> -1]]

\* bySrc.get(col.source.toLowerCase()): the last entry of that source
bySrc(proposal, source) ==
  LET hits == {k \in 1..Len(proposal) :
                 toLowerCase(proposal[k].source) = toLowerCase(source)}
  IN IF hits = {} THEN <<>>
     ELSE <<proposal[CHOOSE k \in hits : \A j \in hits : j <= k]>>

\* the proposal's target taken whether or not it is a canonical field
targetValidAlways(t, canonicalFields) == TRUE
\* canon.includes(t)
targetValid(t, canonicalFields) == t \in Range(canonicalFields)

\* the proposal's confidence taken in place of the column's
mergedConfidenceReplacing(col, m) ==
  IF m.confidence # NoConf THEN m.confidence ELSE col.confidence
\* typeof m.confidence === 'number' ? Math.max(col.confidence, m.confidence) : col.confidence
mergedConfidence(col, m) ==
  IF m.confidence # NoConf THEN FracMax(col.confidence, m.confidence) ELSE col.confidence

\* mergeGemini(base, mapping) over the canonical fields in use
mergeGemini(cols, proposal, canonicalFields) ==
  [k \in 1..Len(cols) |->
     LET col == cols[k]
         found == bySrc(proposal, col.source)
     IN IF found = <<>> THEN col
        ELSE LET m == found[1]
                 t == toStr(IF Truthy(m.target) THEN m.target ELSE Str(<<>>))
                 valid == targetValid(t, canonicalFields)
             IN [col EXCEPT
                   !.target = IF valid THEN Str(t) ELSE col.target,
                   !.reason = IF valid
                              THEN [text |-> IF m.reason # "" THEN m.reason ELSE "Gemini",
                                    percent |-> -1]
                              ELSE col.reason,
                   !.type = IF m.inferredType # "" THEN m.inferredType ELSE col.type,
                   !.confidence = mergedConfidence(col, m)]]

\* ------------------------------------------------------------------------
\* SchemaMapper: the component's steps
\* ------------------------------------------------------------------------
\* the number of columns of a sheet
MaxColumns == 1

\* the component mounted on a sheet of at most MaxColumns columns, with a
\* ruleSetId: none, a leads one, an insurance one
InitMapper ==
  LET
      \* a column of the sheet: its header cell and its sampled values
      Column(header, values) == [header |-> header, values |-> values]
      ColumnPool ==
        { Column(<<>>, <<>>),
          Column(<<"S", "t", "a", "t", "e">>, <<<<"C", "A">>, <<"c", "a", " ">>>>),
          Column(<<"z", "z">>, <<<<"1">>, <<"0">>>>),
          Column(<<"t", "r", "a", "c", "t", "i", "o", "n">>, <<<<"S", "t", "r", "o", "n", "g">>, <<"w", "e", "a", "k">>, <<"m", "i", "x", "e", "d">>>>),
          Column(<<"q", "7">>, <<<<"y", "e", "s">>, <<"n", "o">>, <<"y", "e", "s">>>>),
          Column(<<" ", "e", "-", "m", "a", "i", "l", " ", "a", "d", "d", "r">>, <<<<"a", "@", "c", ".", "c", "o">>>>),
          Column(<<"s", "t", "a", "t">>, <<<<"x">>, <<"x">>, <<"x">>, <<"x">>, <<"x">>, <<"x">>>>),
          Column(<<"#">>, <<<<"2", "0", "2", "0", "-", "0", "1", "-", "0", "2">>, <<"7">>, <<" ">>>>),
          Column(<<"a", "d", "d", "r", "e", "s", "1">>, <<<<"$", "1", ",", "2", "0", "0", ".", "5">>, <<"1", "2", ".", "5", "0">>>>),
          Column(<<"a", "d", "r", "e", "s", "s", "e">>, <<<<"1", "2">>, <<"7">>>>),
          Column(<<"m", "e", "m", "o">>, <<<<"y">>, <<"x">>, <<"7">>, <<"x", "x">>>>) }
      \* the ruleSetId the component is given: none, a leads one, an insurance one
      RuleSetIds == {<<>>, <<"S", "a", "l", "e", "s", "-", "l", "e", "a", "d", "s">>, <<"p", "o", "l", "i", "c", "y", "_", "A">>}
      \* XLSX sheets of at most MaxColumns columns; legacy: whether this engine's
      \* Date.parse accepts a string of digits
      Files ==
        [cols : SeqsUpTo(ColumnPool, MaxColumns), legacy : BOOLEAN]
  IN
    /\ engineIdle /\ svcIdle
    /\ config = <<>> /\ docs = <<>> /\ jobRows = <<>> /\ buckets = <<>>
    /\ jobIssues = <<>> /\ fuzzIssues = <<>> /\ response = <<>>
    /\ pc = "mapper"
    /\ \E id \in RuleSetIds : canon = pickCanon(id)
    /\ file \in Files
    /\ columns = <<>> /\ base = <<>> /\ mapping = <<>>

\* parseFile: the header cells trimmed, one ColumnSpec per column
ParseFile ==
  /\ pc = "mapper"
  /\ columns' = [k \in 1..Len(file.cols) |->
                   inferColumn(trim(file.cols[k].header), file.cols[k].values, canon,
                               file.legacy)]
  /\ pc' = "mapped"
  /\ UNCHANGED <<engineVars, svcVars, canon, file, base, mapping,
                 config, docs, jobRows, buckets, jobIssues, fuzzIssues, response>>

\* proposeWithGemini: the answer merged onto the columns, or refused
ProposeWithGemini ==
  LET
      \* one entry of an external proposal; target Undef, reason "", inferredType ""
      \* and confidence NoConf stand for absent keys
      Proposal(source, target, reason, inferredType, confidence) ==
        [source |-> source, target |-> target, reason |-> reason,
         inferredType |-> inferredType, confidence |-> confidence]
      \* answers of /api/schema/propose: the mapping array, or an answer without one
      Answer(isArray, proposal) == [isArray |-> isArray, mapping |-> proposal]
      ProposalPool ==
        { Answer(FALSE, <<>>),
          Answer(TRUE, <<>>),
          Answer(TRUE, <<Proposal(<<"z", "z">>, Str(<<"e", "m", "a", "i", "l">>), "", "", NoConf)>>),
          Answer(TRUE, <<Proposal(<<"S", "t", "a", "t">>, Str(<<"b", "o", "g", "u", "s">>), "r",
                                  "date", Frac(1, 10))>>),
          Answer(TRUE, <<Proposal(<<"a", "d", "r", "e", "s", "s", "e">>, Undef, "", "",
                                  Frac(99, 100))>>),
          Answer(TRUE, <<Proposal(<<"a", "d", "r", "e", "s", "s", "e">>,
                                  Str(<<"a", "d", "d", "r", "e", "s", "s">>), "close", "string",
                                  Frac(1, 5))>>),
          Answer(TRUE, <<Proposal(<<"s", "t", "a", "t">>, Str(<<"b", "o", "g", "u", "s">>), "r",
                                  "date", Frac(1, 10)),
                         Proposal(<<"S", "t", "a", "t">>, Str(<<"s", "t", "a", "t", "u", "s">>),
                                  "", "", NoConf)>>),
          Answer(TRUE, <<Proposal(<<"q", "7">>, Str(<<"q", "7">>), "", "", Frac(1, 2))>>) }
  IN
    /\ pc = "mapped"
    /\ \E answer \in ProposalPool :
         IF ~answer.isArray
         THEN UNCHANGED <<columns, base, mapping>>
         ELSE /\ base' = columns
              /\ mapping' = answer.mapping
              /\ columns' = mergeGemini(columns, answer.mapping, canon)
    /\ UNCHANGED <<engineVars, svcVars, canon, file, pc,
                 config, docs, jobRows, buckets, jobIssues, fuzzIssues, response>>

NextMapper ==
  \/ ParseFile
  \/ ProposeWithGemini

SpecMapper == InitMapper /\ [][NextMapper]_vars

\* ------------------------------------------------------------------------
\* Properties of the Schema Mapper
\* ------------------------------------------------------------------------
\* fractions compared (see Frac)
FracEq(x, y) == x[1] * y[2] = y[1] * x[2]
FracLess(x, y) == x[1] * y[2] < y[1] * x[2]

\* a reason: its text and, for a pre-selected candidate, the percentage
\* appended to it (-1 when there is none)
Reason(text, percent) == [text |-> text, percent |-> percent]

\* the columns are as inferColumn proposed them: no proposal merged yet
Inferred == pc = "mapped" /\ base = <<>> /\ Len(columns) = Len(file.cols)

\* the header cell as parseFile hands it to inferColumn
HeaderOf(k) == trim(file.cols[k].header)
\* the best candidate score of column k, <<>> when there is no candidate
BestScore(k) ==
  LET scored == scoreCandidates(HeaderOf(k), file.cols[k].values, canon)
  IN IF scored = <<>> THEN <<>> ELSE <<scored[1].score>>
BelowGate(k) == BestScore(k) = <<>> \/ FracLess(BestScore(k)[1], Gate)

\* no target: undefined or the empty string
Unset(target) == target = Undef \/ target = Str(<<>>)

Merged == pc = "mapped" /\ columns # <<>> /\ Len(base) = Len(columns)

\* the entry of the merged proposal for column k, <<>> when there is none
EntryFor(k) == bySrc(mapping, base[k].source)
\* the target the entry names is one of the canonical fields
NamesCanonical(k) ==
  EntryFor(k)[1].target # Undef /\ EntryFor(k)[1].target.s \in Range(canon)

\* C17 as stated: the target and reason of a column are overridden when the
\* proposed target is a canonical field; when it is not, the merged
\* ColumnSpec equals the heuristic one.
C17_AsStated ==
  Merged =>
    \A k \in 1..Len(columns) :
      EntryFor(k) # <<>> =>
        IF NamesCanonical(k)
        THEN columns[k].target = EntryFor(k)[1].target
        ELSE columns[k] = base[k]

\* C17, amended: the target and reason of a column are overridden only if the
\* proposed target is a canonical field; if it is not, target and reason
\* stay as the heuristic produced them, while the type and the confidence of
\* the proposal are still merged; a column the proposal has no entry for is
\* unchanged.
C17_TargetOnlyFromCanon ==
  Merged =>
    \A k \in 1..Len(columns) :
      IF EntryFor(k) = <<>>
      THEN columns[k] = base[k]
      ELSE /\ IF NamesCanonical(k)
              THEN /\ columns[k].target = EntryFor(k)[1].target
                   /\ columns[k].reason.percent = -1
                   /\ columns[k].reason.text =
                        (IF EntryFor(k)[1].reason = "" THEN "Gemini"
                         ELSE EntryFor(k)[1].reason)
              ELSE /\ columns[k].target = base[k].target
                   /\ columns[k].reason = base[k].reason
           /\ columns[k].source = base[k].source
           /\ columns[k].samples = base[k].samples
           /\ columns[k].suggestTargets = base[k].suggestTargets

\* a proposal naming a target outside the canonical fields was merged: target
\* and reason stayed, the type did not
C17_Witness ==
  /\ Merged
  /\ \E k \in 1..Len(columns) :
       /\ EntryFor(k) # <<>> /\ ~NamesCanonical(k)
       /\ EntryFor(k)[1].target # Undef
       /\ columns[k].target = base[k].target
       /\ columns[k].type # base[k].type

\* the confidence of the entry for column k, <<>> when it is not a number
EntryConfidence(k) ==
  IF EntryFor(k) = <<>> \/ EntryFor(k)[1].confidence = NoConf THEN <<>>
  ELSE <<EntryFor(k)[1].confidence>>

\* C18 as stated: the merged confidence is the greater of the heuristic and
\* the external one, and an external proposal of lower or missing confidence
\* leaves type and confidence as the heuristic produced them.
C18_AsStated ==
  Merged =>
    \A k \in 1..Len(columns) :
      /\ FracLeq(base[k].confidence, columns[k].confidence)
      /\ (EntryConfidence(k) = <<>>
            \/ FracLeq(EntryConfidence(k)[1], base[k].confidence))
           => /\ columns[k].type = base[k].type
              /\ FracEq(columns[k].confidence, base[k].confidence)

\* C18, amended: merging never lowers a confidence: the merged confidence is
\* the greater of the heuristic one and the external one when the external
\* one is a number, the heuristic one otherwise; the type becomes the type
\* the proposal gives whenever it gives one, whatever the two confidences.
C18_ConfidenceNeverLowered ==
  Merged =>
    \A k \in 1..Len(columns) :
      /\ FracLeq(base[k].confidence, columns[k].confidence)
      /\ IF EntryConfidence(k) = <<>>
         THEN FracEq(columns[k].confidence, base[k].confidence)
         ELSE /\ FracLeq(EntryConfidence(k)[1], columns[k].confidence)
              /\ \/ FracEq(columns[k].confidence, base[k].confidence)
                 \/ FracEq(columns[k].confidence, EntryConfidence(k)[1])
      /\ columns[k].type =
           (IF EntryFor(k) # <<>> /\ EntryFor(k)[1].inferredType # ""
            THEN EntryFor(k)[1].inferredType ELSE base[k].type)

\* a proposal of lower confidence naming a canonical field was merged: the
\* confidence stayed and the type changed
C18_Witness ==
  /\ Merged
  /\ \E k \in 1..Len(columns) :
       /\ EntryConfidence(k) # <<>>
       /\ FracLess(EntryConfidence(k)[1], base[k].confidence)
       /\ FracEq(columns[k].confidence, base[k].confidence)
       /\ columns[k].type # base[k].type
       /\ NamesCanonical(k)

\* C19 as stated: a column whose header text is empty, or normalizes to the
\* empty string, or an empty list of canonical fields, yields a ColumnSpec
\* with no pre-selected target: no canonical field is its target.
C19_AsStated ==
  Inferred =>
    \A k \in 1..Len(columns) :
      (norm(HeaderOf(k)) = <<>> \/ canon = <<>>) =>
        columns[k].target.s \notin Range(canon)

\* ------------------------------------------------------------------------
\* dedupeScan (lib/dedupe.ts)
\* ------------------------------------------------------------------------
\* the number of documents of a job
MaxDocs == 3

\* limit when the body has none, and the most rows a scan reads
DefaultLimit == 200
MaxLimit == 2000

\* norm of dedupe.ts: String(v||'').trim().toLowerCase()
dedupeNorm(v) == toLowerCase(trim(IF Truthy(v) THEN String(v) ELSE <<>>))

\* 1 - d / L; 0 when either string is empty
fuzzyScore(a, b) ==
  IF a = <<>> \/ b = <<>> THEN Frac(0, 1)
  ELSE LET d == levenshtein(a, b)
           L == IF Len(a) < Len(b) THEN Len(b) ELSE Len(a)
       IN Frac(L - d, L)

\* the key of a row: keyFields.map(k => norm(r[k])).join('|')
keyOf(r, keyFields) ==
  join([k \in 1..Len(keyFields) |-> dedupeNorm(r.data[keyFields[k]])], <<"|">>)

\* the bucketing loop over the rows: key -> ids, as a sequence of [key, ids]
\* in insertion order
bucketRows(jobRowsRead, keyFields) ==
  LET \* buckets.get(key) || []; arr.push(r.id); buckets.set(key, arr)
      addToBucket(bs, key, id) ==
        IF \E k \in 1..Len(bs) : bs[k].key = key
        THEN [k \in 1..Len(bs) |->
                IF bs[k].key = key THEN [bs[k] EXCEPT !.ids = Append(@, id)] ELSE bs[k]]
        ELSE Append(bs, [key |-> key, ids |-> <<id>>])
      RECURSIVE loop(_, _)
      loop(rs, bs) ==
        IF rs = <<>> THEN bs
        ELSE LET key == keyOf(Head(rs), keyFields)
             IN loop(Tail(rs),
                     IF key = <<>> THEN bs ELSE addToBucket(bs, key, Head(rs).id))
  IN loop(jobRowsRead, <<>>)

\* the issues of the buckets with more than one member, bucket by bucket
keyIssues(bucketsMade, keyFields) ==
  LET \* the issue added for one member of a bucket
      KeyIssue(id, key, ids) ==
        [rowId |-> id,
         field |-> join([k \in 1..Len(keyFields) |-> <<keyFields[k]>>], <<",">>),
         ruleId |-> "dedupe-key",
         problem |-> <<"Potential duplicate key: ">> \o key,
         suggestion |-> [cluster |-> ids],
         confidence |-> Frac(95, 100),
         severity |-> "warning",
         source |-> "deterministic",
         status |-> "open"]
      RECURSIVE loop(_)
      loop(bs) ==
        IF bs = <<>> THEN <<>>
        ELSE LET b == Head(bs)
             IN (IF Len(b.ids) <= 1 THEN <<>>
                 ELSE [k \in 1..Len(b.ids) |-> KeyIssue(b.ids[k], b.key, b.ids)])
                \o loop(Tail(bs))
  IN loop(bucketsMade)

\* the fuzzy loops over the pairs i < j: the issues pushed to fuzzIssues
fuzzyPhase(jobRowsRead, fuzzyFields) ==
  LET \* the score of a pair of rows: the greatest fuzzyScore over the fields
      RECURSIVE pairScore(_, _, _, _)
      pairScore(a, b, ffs, score) ==
        IF ffs = <<>> THEN score
        ELSE pairScore(a, b, Tail(ffs),
                       FracMax(fuzzyScore(dedupeNorm(a.data[Head(ffs).field]),
                                          dedupeNorm(b.data[Head(ffs).field])),
                               score))
      FuzzyThreshold == Frac(9, 10)
      FuzzyIssue(id1, id2, score) ==
        [rowId |-> id1,
         field |-> join([k \in 1..Len(fuzzyFields) |-> <<fuzzyFields[k].field>>], <<",">>),
         ruleId |-> "dedupe-fuzzy",
         problem |-> <<"High similarity to row ", id2>>,
         suggestion |-> [match |-> id2, score |-> score],
         confidence |-> score,
         severity |-> "info",
         source |-> "deterministic",
         status |-> "open"]
      \* the pairs i < j in the order the two loops visit them
      RECURSIVE order(_)
      order(S) ==
        IF S = {} THEN <<>>
        ELSE LET p == CHOOSE x \in S : \A y \in S \ {x} :
                        x[1] < y[1] \/ (x[1] = y[1] /\ x[2] < y[2])
             IN <<p>> \o order(S \ {p})
      n == Len(jobRowsRead)
      \* fuzzPairs holds the pairs of ids already reported: the key id1|id2 with
      \* the smaller id first is the pair without its order
      RECURSIVE loop(_, _, _)
      loop(todo, fuzzPairs, acc) ==
        IF todo = <<>> THEN acc
        ELSE LET a == jobRowsRead[Head(todo)[1]]
                 b == jobRowsRead[Head(todo)[2]]
                 score == pairScore(a, b, fuzzyFields, Frac(0, 1))
                 key == {a.id, b.id}
             IN IF FracLeq(FuzzyThreshold, score) /\ key \notin fuzzPairs
                THEN loop(Tail(todo), fuzzPairs \cup {key},
                          Append(acc, FuzzyIssue(a.id, b.id, score)))
                ELSE loop(Tail(todo), fuzzPairs, acc)
  IN loop(order({p \in (1..n) \X (1..n) : p[1] < p[2]}), {}, <<>>)

\* a request on a job of at most MaxDocs documents r1, r2, ...; absent
\* fields of a row's data are Undef; the last data of the pool is of a row
\* whose id cell was blank (getStableRowId then falls back to the index)
InitDedupe ==
  LET Data(id, mail, name) == [id |-> id, email |-> mail, name |-> name]
      DataPool ==
        { Data(Undef, Undef, Str(<<"a", "c", "a", "c">>)),
          Data(Undef, Str(<<"a", "@", "c">>), Str(<<"a", "c", "a", "c", "a", "c", "a", "c", "a", "c">>)),
          Data(Undef, Str(<<" ", "A", "@", "c", " ">>), Str(<<"a", "c", "a", "c", "a", "c", "a", "c", "a", "S">>)),
          Data(Undef, Str(<<" ">>), Str(<<>>)),
          Data(Str(<<>>), Str(<<"a", "@", "c">>), Str(<<"a", "c", "a", "c", "a", "c", "a", "c", "a", "c">>)) }
      DocId(k) == <<"r", CASE k = 1 -> "1" [] k = 2 -> "2" [] k = 3 -> "3" [] OTHER -> "9">>
      DocLists ==
        UNION {{[k \in 1..n |-> [id |-> DocId(k), data |-> d[k]]] : d \in [1..n -> DataPool]}
                 : n \in 0..MaxDocs}
      KeyFieldLists == {<<>>, <<"email">>, <<"email", "name">>}
      FuzzyField(field, threshold) == [field |-> field, threshold |-> threshold]
      FuzzyFieldLists ==
        {<<>>, <<FuzzyField("name", NoConf)>>,
         <<FuzzyField("email", Frac(85, 100)), FuzzyField("name", NoConf)>>}
      \* limit of the body, <<>> when absent
      Limits == {<<>>, <<1>>}
  IN /\ engineIdle /\ svcIdle
     /\ canon = <<>> /\ file = <<>> /\ columns = <<>> /\ base = <<>> /\ mapping = <<>>
     /\ pc = "dedupe"
     /\ \E method \in {"POST", "GET"}, jobId \in {"", "j1"}, keyFields \in KeyFieldLists,
           fuzzyFields \in FuzzyFieldLists, limit \in Limits :
          config = [method |-> method, jobId |-> jobId, keyFields |-> keyFields,
                    fuzzyFields |-> fuzzyFields,
                    limit |-> IF limit = <<>> THEN DefaultLimit ELSE limit[1]]
     /\ docs \in DocLists
     /\ jobRows = <<>> /\ buckets = <<>> /\ jobIssues = <<>> /\ fuzzIssues = <<>>
     /\ response = <<>>

\* the handler: the request refused (405, 400), or the rows read, bucketed
\* by key, the key issues added, the fuzzy pairs found and written, the answer
dedupeScan ==
  LET \* { id: d.id, ...data }: a data field named id replaces the document id
      RowOf(doc) ==
        [id |-> IF doc.data.id # Undef THEN doc.data.id ELSE Str(doc.id),
         data |-> doc.data]
      limit == IF config.limit < MaxLimit THEN config.limit ELSE MaxLimit
      taken == SubSeq(docs, 1, IF Len(docs) < limit THEN Len(docs) ELSE limit)
      rowsRead == [k \in 1..Len(taken) |-> RowOf(taken[k])]
      made == bucketRows(rowsRead, config.keyFields)
      fuzz == fuzzyPhase(rowsRead, config.fuzzyFields)
      \* duplicates += ids.length - 1
      RECURSIVE duplicatesOf(_)
      duplicatesOf(bs) ==
        IF bs = <<>> THEN 0
        ELSE (IF Len(Head(bs).ids) <= 1 THEN 0 ELSE Len(Head(bs).ids) - 1)
               + duplicatesOf(Tail(bs))
  IN /\ pc = "dedupe"
     /\ pc' = "answered"
     /\ IF config.method # "POST"
        THEN /\ response' = [status |-> 405, body |-> "Use POST"]
             /\ UNCHANGED <<jobRows, buckets, jobIssues, fuzzIssues>>
        ELSE IF config.jobId = ""
        THEN /\ response' = [status |-> 400, body |-> "jobId required"]
             /\ UNCHANGED <<jobRows, buckets, jobIssues, fuzzIssues>>
        ELSE /\ jobRows' = rowsRead
             /\ buckets' = made
             /\ fuzzIssues' = fuzz
             /\ jobIssues' = jobIssues \o keyIssues(made, config.keyFields) \o fuzz
             /\ response' = [status |-> 200,
                             body |-> [scanned |-> Len(rowsRead),
                                       dupKeyCount |-> duplicatesOf(made),
                                       fuzzyPairs |-> Len(fuzz)]]
     /\ UNCHANGED <<engineVars, svcVars, canon, file, columns, base, mapping, config,
                    docs>>

NextDedupe == dedupeScan

SpecDedupe == InitDedupe /\ [][NextDedupe]_vars

\* ------------------------------------------------------------------------
\* Properties of dedupeScan
\* ------------------------------------------------------------------------
\* every key field of the row is empty after trim and lowercase
AllKeysBlank(r) ==
  \A k \in 1..Len(config.keyFields) : dedupeNorm(r.data[config.keyFields[k]]) = <<>>

\* the key of a dedupe-key issue
IssueKey(issue) == SubSeq(issue.problem, 2, Len(issue.problem))

\* C20 as stated: for any number of key fields, a row whose key fields are
\* all blank is placed in no bucket: no bucket has the key of such a row, and
\* no dedupe-key Issue reports it.
C20_AsStated ==
  \A k \in 1..Len(jobRows) :
    AllKeysBlank(jobRows[k]) =>
      /\ \A b \in 1..Len(buckets) :
           buckets[b].key # keyOf(jobRows[k], config.keyFields)
      /\ \A n \in 1..Len(jobIssues) :
           jobIssues[n].ruleId = "dedupe-key" =>
             IssueKey(jobIssues[n]) # keyOf(jobRows[k], config.keyFields)

\* the scan ran to its answer
Scanned == pc = "answered" /\ response.status = 200

\* the id of the document of the k-th scanned row
DocIdOf(k) == Str(docs[k].id)
\* the rows whose id is the id of their document
Unaliased == \A k \in 1..Len(jobRows) : jobRows[k].id = DocIdOf(k)

\* the key fields of the k-th scanned row, trimmed, lowercased and joined
TextOf(v) == IF v = Undef THEN <<>> ELSE v.s
ClaimKey(k) ==
  join([j \in 1..Len(config.keyFields) |->
          toLowerCase(trim(TextOf(docs[k].data[config.keyFields[j]])))], <<"|">>)
Members(k) == {m \in 1..Len(jobRows) : ClaimKey(m) = ClaimKey(k)}
\* the dedupe-key issues of the row of document k
KeyIssuesOf(k) ==
  SelectSeq(jobIssues, LAMBDA x : x.ruleId = "dedupe-key" /\ x.rowId = DocIdOf(k))

\* each row of a bucket of several has one dedupe-key issue naming the
\* cluster; a row alone in its bucket has none
KeyIssuePerMember ==
  \A k \in 1..Len(jobRows) :
    ClaimKey(k) # <<>> =>
      IF Cardinality(Members(k)) > 1
      THEN /\ Len(KeyIssuesOf(k)) = 1
           /\ IssueKey(KeyIssuesOf(k)[1]) = ClaimKey(k)
           /\ Range(KeyIssuesOf(k)[1].suggestion.cluster) = {DocIdOf(m) : m \in Members(k)}
           /\ Len(KeyIssuesOf(k)[1].suggestion.cluster) = Cardinality(Members(k))
           /\ KeyIssuesOf(k)[1].confidence = Frac(95, 100)
           /\ KeyIssuesOf(k)[1].severity = "warning"
      ELSE KeyIssuesOf(k) = <<>>

\* C21 as stated: rows are bucketed by the trimmed, lowercased
\* concatenation of their key fields; every member of a bucket of several
\* has exactly one dedupe-key Issue, naming the full cluster of rowIds with
\* confidence 0.95 and severity warning; a row alone in its bucket has none.
C21_AsStated == Scanned => KeyIssuePerMember

\* the same of the scans in which no row's data carries an id of its own
C21_OfUnaliasedRows == Scanned /\ Unaliased => KeyIssuePerMember

\* the pair score of the rows of documents a and b: the greatest over the
\* fuzzy fields of 1 - levenshtein / max(len), 0 when a text is empty
ClaimScore(a, b) ==
  LET text(k, f) == toLowerCase(trim(TextOf(docs[k].data[f])))
      one(f) == IF text(a, f) = <<>> \/ text(b, f) = <<>> THEN Frac(0, 1)
                ELSE LET L == Max({Len(text(a, f)), Len(text(b, f))})
                     IN Frac(L - levenshtein(text(a, f), text(b, f)), L)
      scores == {one(config.fuzzyFields[j].field) : j \in 1..Len(config.fuzzyFields)}
                  \cup {Frac(0, 1)}
  IN CHOOSE x \in scores : \A y \in scores : FracLeq(y, x)

\* the dedupe-fuzzy issues of the pair of rows of documents a and b
FuzzyIssuesOf(a, b) ==
  SelectSeq(jobIssues,
            LAMBDA x : /\ x.ruleId = "dedupe-fuzzy"
                       /\ \/ x.rowId = DocIdOf(a) /\ x.suggestion.match = DocIdOf(b)
                          \/ x.rowId = DocIdOf(b) /\ x.suggestion.match = DocIdOf(a))
SimilarPairs ==
  {p \in (1..Len(jobRows)) \X (1..Len(jobRows)) :
     p[1] < p[2] /\ FracLeq(Frac(9, 10), ClaimScore(p[1], p[2]))}

\* every pair of scanned rows has one dedupe-fuzzy issue, of the pair's
\* score, when the score is at least 0.9 and none otherwise
FuzzyIssuePerPair ==
  /\ \A a, b \in 1..Len(jobRows) :
       a < b =>
         IF <<a, b>> \in SimilarPairs
         THEN /\ Len(FuzzyIssuesOf(a, b)) = 1
              /\ FracEq(FuzzyIssuesOf(a, b)[1].confidence, ClaimScore(a, b))
         ELSE FuzzyIssuesOf(a, b) = <<>>
  /\ response.body.fuzzyPairs = Cardinality(SimilarPairs)

\* C22 as stated: every unordered pair of distinct scanned rows has exactly
\* one dedupe-fuzzy Issue, with the pair score as confidence, iff its score
\* (the greatest over the fuzzy fields of 1 - levenshtein / max(len)) is at
\* least 0.9, and fuzzyPairs is the number of such pairs.
C22_AsStated == Scanned => FuzzyIssuePerPair

\* the same of the scans in which no row's data carries an id of its own
C22_OfUnaliasedRows == Scanned /\ Unaliased => FuzzyIssuePerPair

\* ------------------------------------------------------------------------
\* The LLM endpoints (lib/llm-adapter.ts) and the LLM pass of processStart
\* (unnamed/part_009)
\* ------------------------------------------------------------------------
MaxLlmRows == 2
AdhocDefaultLimit == 20
MaxQueryLimit == 200
BatchDefaultLimit == 50
BatchChunk == 20
DefaultLlmLimit == 100
MaxRowsForLLM == 10

\* redactRows: without PII fields the rows themselves, else copies without
\* those fields; an object is the function of its keys, Undef for a key it
\* lacks; piiFields is [defined, fields], fields <<>> when not defined
redactRows(objs, piiFields) ==
  IF ~piiFields.defined \/ piiFields.fields = <<>> THEN objs
  ELSE [k \in 1..Len(objs) |->
          [f \in DOMAIN objs[k] |->
             IF f \in Range(piiFields.fields) THEN Undef ELSE objs[k][f]]]

\* two jobs of at most MaxLlmRows rows that differ only in the values of the
\* fields of pii.fields, and one request to one endpoint. The row of document
\* k is row k of the sheet, which processStart numbers k + 1. The open
\* deterministic issues of the job are given by their rowIds.
InitLlm ==
  LET Data(name, ssn) == [name |-> name, ssn |-> ssn]
      DataPool == {Data(n, s) : n \in {Undef, Str(<<"n">>)},
                                s \in {Undef, Str(<<>>), Str(<<"1">>)}}
      \* pii.fields: absent, empty, one field
      PiiPool == {[defined |-> FALSE, fields |-> <<>>], [defined |-> TRUE, fields |-> <<>>],
                  [defined |-> TRUE, fields |-> <<"ssn">>]}
      Request(endpoint, method, jobId, prompt, rowIds, cols, limit, open, useLLM) ==
        [endpoint |-> endpoint, method |-> method, jobId |-> jobId, prompt |-> prompt,
         rowIds |-> rowIds, columns |-> cols, limit |-> limit, open |-> open,
         useLLM |-> useLLM]
      Adhoc(method, jobId, prompt, rowIds, cols, limit) ==
        Request("llmAdhoc", method, jobId, prompt, rowIds, cols, limit, <<>>, FALSE)
      Batch(method, jobId, limit, open) ==
        Request("llmBatch", method, jobId, "", <<>>, <<>>, limit, open, FALSE)
      Process(method, jobId, useLLM, llmLimit, open) ==
        Request("processStart", method, jobId, "", <<>>, <<>>, llmLimit, open, useLLM)
      RequestPool ==
        {Adhoc("GET", "j1", "p", <<>>, <<>>, AdhocDefaultLimit),
         Adhoc("POST", "", "p", <<>>, <<>>, AdhocDefaultLimit),
         Adhoc("POST", "j1", "", <<>>, <<>>, AdhocDefaultLimit)}
        \cup {Adhoc("POST", "j1", "p", ids, <<>>, AdhocDefaultLimit) :
                ids \in {<<1>>, <<2, 1>>, <<3>>}}
        \cup {Adhoc("POST", "j1", "p", <<>>, cols, limit) :
                cols \in {<<>>, <<"ssn">>, <<"name">>}, limit \in {AdhocDefaultLimit, 1}}
        \cup {Batch("GET", "j1", BatchDefaultLimit, <<1>>),
              Batch("POST", "", BatchDefaultLimit, <<1>>)}
        \cup {Batch("POST", "j1", limit, open) :
                limit \in {BatchDefaultLimit, 1}, open \in {<<>>, <<1>>, <<2, 2, 1>>}}
        \cup {Process("GET", "j1", TRUE, DefaultLlmLimit, <<2>>),
              Process("POST", "", TRUE, DefaultLlmLimit, <<2>>),
              Process("POST", "j1", FALSE, DefaultLlmLimit, <<2>>)}
        \cup {Process("POST", "j1", TRUE, llmLimit, open) :
                llmLimit \in {DefaultLlmLimit, 1},
                open \in {<<>>, <<2>>, <<3, 2, 3>>, <<1>>}}
  IN /\ engineIdle /\ scanIdle /\ reviewIdle /\ parseIdle
     /\ pc = "llm"
     /\ llmPii \in PiiPool
     /\ llmRequest \in RequestPool
     /\ \E n \in 0..MaxLlmRows :
          \E a \in [1..n -> DataPool], b \in [1..n -> DataPool] :
            /\ \A k \in 1..n :
                 \A f \in {"name", "ssn"} :
                   a[k][f] # b[k][f] => f \in Range(llmPii.fields)
            /\ llmJobs = <<a, b>>
     /\ llmSent = <<>>

\* llmAdhoc: the rows of the rowIds given, or a sample of the job's rows cut
\* down to the columns asked for, redacted and sent as one sample
llmAdhoc ==
  LET r == llmRequest
      idOf(k) == Str(<<CASE k = 1 -> "1" [] k = 2 -> "2" [] k = 3 -> "3" [] OTHER -> "9">>)
      \* { rowId: s.id, ...data }
      obj(job, k) == [rowId |-> idOf(k), name |-> job[k].name, ssn |-> job[k].ssn]
      found(job) == SelectSeq(r.rowIds, LAMBDA id : id \in 1..Len(job))
      byIds(job) == [k \in 1..Len(found(job)) |-> obj(job, found(job)[k])]
      limit == IF r.limit < MaxQueryLimit THEN r.limit ELSE MaxQueryLimit
      sample(job) ==
        LET n == IF Len(job) < limit THEN Len(job) ELSE limit
            all == [k \in 1..n |-> obj(job, k)]
        IN IF r.columns = <<>> THEN all
           ELSE [k \in 1..n |->
                   [f \in {"rowId", "name", "ssn"} |->
                      IF f = "rowId" \/ f \in Range(r.columns) THEN all[k][f] ELSE Undef]]
      redacted(job) ==
        redactRows(IF r.rowIds # <<>> THEN byIds(job) ELSE sample(job), llmPii)
      \* with each payload, the row it was made of
      sent(job) ==
        [k \in 1..Len(redacted(job)) |->
           [row |-> IF r.rowIds # <<>> THEN found(job)[k] ELSE k, obj |-> redacted(job)[k]]]
  IN /\ pc = "llm" /\ r.endpoint = "llmAdhoc"
     /\ pc' = "answered"
     /\ llmSent' = IF r.method # "POST" \/ r.jobId = "" \/ r.prompt = ""
                   THEN <<<<>>, <<>>>>
                   ELSE [j \in 1..2 |-> sent(llmJobs[j])]
     /\ UNCHANGED <<engineVars, scanVars, reviewVars, parseVars, llmJobs, llmPii, llmRequest>>

\* llmBatch: the rows with open deterministic issues, redacted and sent in
\* chunks of BatchChunk
llmBatch ==
  LET r == llmRequest
      idOf(k) == Str(<<CASE k = 1 -> "1" [] k = 2 -> "2" [] k = 3 -> "3" [] OTHER -> "9">>)
      queried == SubSeq(r.open, 1, Min({Len(r.open), MaxQueryLimit, r.limit}))
      \* Array.from(new Set(...)): the first occurrences, in order
      RECURSIVE uniq(_, _)
      uniq(q, seen) ==
        IF q = <<>> THEN <<>>
        ELSE IF Head(q) \in seen THEN uniq(Tail(q), seen)
        ELSE <<Head(q)>> \o uniq(Tail(q), seen \cup {Head(q)})
      rowIds == SubSeq(uniq(queried, {}), 1, Min({Len(uniq(queried, {})), r.limit}))
      found(job) == SelectSeq(rowIds, LAMBDA id : id \in 1..Len(job))
      objs(job) ==
        [k \in 1..Len(found(job)) |->
           [rowId |-> idOf(found(job)[k]), name |-> job[found(job)[k]].name,
            ssn |-> job[found(job)[k]].ssn]]
      RECURSIVE chunked(_)
      chunked(q) ==
        IF q = <<>> THEN <<>>
        ELSE redactRows(SubSeq(q, 1, Min({Len(q), BatchChunk})), llmPii)
               \o chunked(SubSeq(q, Min({Len(q), BatchChunk}) + 1, Len(q)))
  IN /\ pc = "llm" /\ r.endpoint = "llmBatch"
     /\ pc' = "answered"
     /\ llmSent' = IF r.method # "POST" \/ r.jobId = "" \/ rowIds = <<>>
                   THEN <<<<>>, <<>>>>
                   ELSE [j \in 1..2 |->
                           [k \in 1..Len(found(llmJobs[j])) |->
                              [row |-> found(llmJobs[j])[k],
                               obj |-> chunked(objs(llmJobs[j]))[k]]]]
     /\ UNCHANGED <<engineVars, scanVars, reviewVars, parseVars, llmJobs, llmPii, llmRequest>>

\* processStart, its LLM pass: one prompt per row with open deterministic
\* issues, at most MaxRowsForLLM rows in the order of the row numbers, the
\* row as the object of its cells with the truthy PII cells overwritten
processStart ==
  LET r == llmRequest
      queried == SubSeq(r.open, 1, Min({Len(r.open), r.limit}))
      \* Object.entries(byRow): integer keys in ascending order
      RECURSIVE ascending(_)
      ascending(S) ==
        IF S = {} THEN <<>> ELSE <<Min(S)>> \o ascending(S \ {Min(S)})
      rowsForLLM ==
        SubSeq(ascending(Range(queried)), 1, Min({MaxRowsForLLM, Cardinality(Range(queried))}))
      \* String(context[i] ?? '')
      cell(job, rowId, f) ==
        IF rowId - 1 \in 1..Len(job) /\ job[rowId - 1][f] # Undef
        THEN Str(String(job[rowId - 1][f])) ELSE Str(<<>>)
      piiFields == llmPii.fields
      obj(job, rowId) ==
        [f \in {"rowId", "name", "ssn"} |->
           IF f = "rowId" THEN Undef
           ELSE IF f \in Range(piiFields) /\ Truthy(cell(job, rowId, f))
           THEN Str(<<"[", "R", "E", "D", "A", "C", "T", "E", "D", "]">>)
           ELSE cell(job, rowId, f)]
  IN /\ pc = "llm" /\ r.endpoint = "processStart"
     /\ pc' = "answered"
     /\ llmSent' = IF r.method # "POST" \/ r.jobId = "" \/ ~r.useLLM
                   THEN <<<<>>, <<>>>>
                   ELSE [j \in 1..2 |->
                           [k \in 1..Len(rowsForLLM) |->
                              [row |-> rowsForLLM[k] - 1,
                               obj |-> obj(llmJobs[j], rowsForLLM[k])]]]
     /\ UNCHANGED <<engineVars, scanVars, reviewVars, parseVars, llmJobs, llmPii, llmRequest>>

NextLlm ==
  \/ llmAdhoc
  \/ llmBatch
  \/ processStart

SpecLlm == InitLlm /\ [][NextLlm]_vars

\* the LLM was handed rows
Sent == pc = "answered" /\ llmSent # <<>>

\* the payloads of job j
Payloads(j) == [k \in 1..Len(llmSent[j]) |-> llmSent[j][k].obj]
\* no payload has, in a field of pii.fields, the value its row has there
NoPiiValueKept ==
  \A j \in 1..2 :
    \A k \in 1..Len(llmSent[j]) :
      \A f \in Range(llmPii.fields) :
        LET m == llmSent[j][k].row
        IN m \in 1..Len(llmJobs[j]) /\ llmJobs[j][m][f] # Undef =>
             llmSent[j][k].obj[f] # llmJobs[j][m][f]

\* C23 as stated: no row handed to the LLM carries the original value of a
\* field of pii.fields, and two jobs that differ only in the values of PII
\* fields hand the LLM the same row payloads, for llmAdhoc, llmBatch and
\* the LLM pass of processStart.
C23_AsStated == Sent => NoPiiValueKept /\ Payloads(1) = Payloads(2)

\* the same of the two endpoints of llm-adapter.ts
C23_OfRedactRows ==
  Sent /\ llmRequest.endpoint # "processStart" =>
    NoPiiValueKept /\ Payloads(1) = Payloads(2)

\* the greatest of the candidate scores
BestTypeScore(score) ==
  CHOOSE x \in {score[t] : t \in DOMAIN score} :
    \A t \in DOMAIN score : FracLeq(score[t], x)
\* the result d of a type inference with candidate scores score: its
\* confidence within [0.3, 1], string at 0.3 when no candidate reaches 0.3,
\* and a type other than string only with that type's score
Floored(score, d) ==
  /\ FracLeq(Frac(3, 10), d.confidence) /\ FracLeq(d.confidence, Frac(1, 1))
  /\ FracLess(BestTypeScore(score), Frac(3, 10)) =>
       d = [type |-> "string", confidence |-> Frac(3, 10)]
  /\ d.type # "string" =>
       /\ d.confidence = score[d.type]
       /\ d.type = "enum" => d.confidence = Frac(4, 5)

\* C24: for every list of sampled values, the empty one included, the type
\* inferencer (the component's and the server's) returns a confidence of at
\* least 0.3 and at most 1, exactly string at 0.3 when the best candidate
\* score is below 0.3, and a type other than string only with its own score
\* count/n (0.8 for enum) as confidence.
C24_TypeInferencerFloor ==
  Inferred =>
    \A k \in 1..Len(columns) :
      /\ Floored(typeScore(file.cols[k].values, file.legacy, FALSE),
                 [type |-> columns[k].type, confidence |-> columns[k].confidence])
      /\ Floored(typeScore(file.cols[k].values, file.legacy, TRUE),
                 serverDetectType(file.cols[k].values, file.legacy))

\* a column whose best candidate score is above 0 and below 0.3 was inferred
\* to be a string at 0.3, and so was a column without values
C24_Witness ==
  /\ Inferred
  /\ \E k \in 1..Len(columns) :
       LET best == BestTypeScore(typeScore(file.cols[k].values, file.legacy, FALSE))
       IN /\ FracLess(Frac(0, 1), best) /\ FracLess(best, Frac(3, 10))
          /\ columns[k].type = "string" /\ columns[k].confidence = Frac(3, 10)

\* ------------------------------------------------------------------------
\* Properties of applyRow: wildcard, suggestions, unknown validators
\* ------------------------------------------------------------------------
\* the invocations of rule j in the k-th finished applyRow of this pass
CallsOfRule(k, j) == {n \in CallsOfRow(pass, k - 1) : calls[n].rule = j}
\* the keys of the normalized row when rule j of the k-th applyRow was
\* expanded: those the latest invocation of an earlier rule left, those of
\* the row passed in when there was none
KeysAtExpansion(k, j) ==
  LET earlier == {n \in CallsOfRow(pass, k - 1) : calls[n].rule < j}
  IN IF earlier = {} THEN Range(given[k].keys) ELSE Range(calls[Max(earlier)].after.keys)
WildcardRules == {j \in 1..Len(ruleSet) : ruleSet[j].enabled /\ "*" \in Range(ruleSet[j].appliesTo)}
FieldsOfRule(k, j) == {calls[n].field : n \in CallsOfRule(k, j)}

\* C25 as stated: a rule whose appliesTo contains * is applied to exactly the
\* keys the normalized row has when the rule is expanded (keys added by
\* earlier auto-fixes included), each field once, also when it is named both
\* explicitly and by the wildcard or listed twice.
C25_AsStated ==
  \A k \in 1..Len(out) :
    \A j \in WildcardRules :
      /\ FieldsOfRule(k, j) = KeysAtExpansion(k, j)
      /\ Cardinality(CallsOfRule(k, j)) = Cardinality(FieldsOfRule(k, j))

\* C25, amended: a rule whose appliesTo contains * is applied to exactly the
\* keys the normalized row has when the rule is expanded (keys added by
\* earlier auto-fixes included) and the fields its appliesTo names, each
\* field once, also when it is named both explicitly and by the wildcard or
\* listed twice.
C25_WildcardAndNamed ==
  \A k \in 1..Len(out) :
    \A j \in 1..Len(ruleSet) :
      ruleSet[j].enabled =>
        /\ FieldsOfRule(k, j) =
             (Range(ruleSet[j].appliesTo) \ {"*"})
               \cup (IF j \in WildcardRules THEN KeysAtExpansion(k, j) ELSE {})
        /\ Cardinality(CallsOfRule(k, j)) = Cardinality(FieldsOfRule(k, j))

\* a wildcard rule was applied to a key an earlier rule's auto-fix added,
\* and a rule naming a present field next to the wildcard validated it once
C25_Witness ==
  /\ pc = "done"
  /\ \E k \in 1..Len(out) :
       \E j \in WildcardRules :
         /\ KeysAtExpansion(k, j) \ Range(given[k].keys) # {}
         /\ KeysAtExpansion(k, j) \subseteq FieldsOfRule(k, j)
  /\ \E k \in 1..Len(out) :
       \E j \in WildcardRules :
         /\ (Range(ruleSet[j].appliesTo) \ {"*"}) \cap Range(given[k].keys) # {}
         /\ Cardinality(CallsOfRule(k, j)) = Cardinality(KeysAtExpansion(k, j))

\* the invocations under a strategy other than auto_fix whose validator
\* found the value valid and returned a normalized value
ValidWithNormalized ==
  {n \in 1..Len(calls) :
     /\ Strategy(ruleSet[calls[n].rule]) # "auto_fix"
     /\ calls[n].vr.valid /\ calls[n].vr.normalized # Undef}

\* C26 as stated: under a strategy other than auto_fix, applyRow emits an
\* Issue for a valid value whenever the validator returns a normalized value,
\* also one equal to the field's current value, with problem 'Review
\* suggested fix.' and the normalized value as suggestion.
C26_AsStated ==
  \A n \in ValidWithNormalized :
    /\ Len(calls[n].emitted) = 1
    /\ calls[n].emitted[1].problem = "Review suggested fix."
    /\ calls[n].emitted[1].suggestion = calls[n].vr.normalized

\* C26, amended: under a strategy other than auto_fix, applyRow emits an
\* Issue for a valid value whenever the validator returns a normalized value,
\* also one equal to the field's current value; its problem is the
\* validator's, 'Review suggested fix.' when the validator gave none, and its
\* suggestion is the validator's, the normalized value when it gave none.
C26_IssueForNormalized ==
  \A n \in ValidWithNormalized :
    /\ Len(calls[n].emitted) = 1
    /\ calls[n].emitted[1].problem =
         IF calls[n].vr.problem # NoProblem THEN calls[n].vr.problem
         ELSE "Review suggested fix."
    /\ calls[n].emitted[1].suggestion =
         IF calls[n].vr.suggestion \notin {Undef, Null} THEN calls[n].vr.suggestion
         ELSE calls[n].vr.normalized

\* an enum rule without fix met an exactly-allowed value and emitted the
\* Issue that proposes the value the field has
C26_Witness ==
  \E n \in ValidWithNormalized :
    /\ ruleSet[calls[n].rule].validator = "enum" /\ ruleSet[calls[n].rule].fix = ""
    /\ calls[n].vr.normalized = calls[n].val
    /\ calls[n].emitted # <<>>
    /\ calls[n].emitted[1].problem = "Review suggested fix."
    /\ calls[n].emitted[1].suggestion = calls[n].val

\* the invocations of rules whose validator is none of the built-in ones
UnknownValidatorCalls ==
  {n \in 1..Len(calls) : ruleSet[calls[n].rule].validator \notin ValidatorKeys}
TreatedAsValid(n) ==
  /\ calls[n].vr.valid
  /\ calls[n].emitted = <<>>
  /\ calls[n].after = calls[n].before

\* C27 as stated: an enabled rule whose validator name is none of the
\* built-in validators is treated as valid for every field it applies to:
\* no Issue, the row unchanged, and applyRow does not raise.
C27_AsStated ==
  /\ pc # "raised"
  /\ \A n \in UnknownValidatorCalls : TreatedAsValid(n)

\* the same of the names that are no property of an object either
C27_OfNamesNotInherited ==
  /\ pc # "raised"
  /\ \A n \in UnknownValidatorCalls :
       ruleSet[calls[n].rule].validator \notin InheritedKeys => TreatedAsValid(n)

\* ------------------------------------------------------------------------
\* Issue review (lib/issues-review.ts)
\* ------------------------------------------------------------------------
DefaultMinConfidence == Frac(9, 10)

\* the status test of applyIssue left out
closedNever(issue) == FALSE
\* issue.status !== 'open'
closed(issue) == issue.status # "open"

\* two requests on a job with issues i1, i2 (and no issue i9) and rows r1
\* (and no row r9); a document that does not exist has exists FALSE
InitReview ==
  LET Issue(status, rowId, field, suggestion, confidence) ==
        [exists |-> TRUE, status |-> status, rowId |-> rowId, field |-> field,
         suggestion |-> suggestion, confidence |-> confidence]
      NoIssue == [exists |-> FALSE, status |-> "", rowId |-> "", field |-> "",
                  suggestion |-> Undef, confidence |-> NoConf]
      IssuePool ==
        { Issue("open", "r1", "cat", Str(<<"a">>), Frac(95, 100)),
          Issue("open", "r1", "cat", Undef, Frac(1, 2)),
          Issue("open", "r9", "cat", Str(<<"a">>), Frac(1, 1)),
          Issue("accepted", "r1", "cat", Str(<<"a">>), Frac(95, 100)),
          Issue("rejected", "r1", "cat", Str(<<"a">>), NoConf),
          NoIssue }
      Request(kind, method, jobId, ids, minConfidence) ==
        [kind |-> kind, method |-> method, jobId |-> jobId, ids |-> ids,
         minConfidence |-> minConfidence, pc |-> "new", pos |-> 0, snap |-> NoIssue,
         before |-> <<>>, results |-> <<>>, response |-> 0]
      RequestPool ==
        {Request("issuesApply", "GET", "j1", <<"i1">>, NoConf),
         Request("issuesApply", "POST", "", <<"i1">>, NoConf)}
        \cup {Request("issuesApply", "POST", "j1", ids, NoConf) :
                ids \in {<<>>, <<"i1">>, <<"i1", "i2">>, <<"i1", "i1">>, <<"i9">>}}
        \cup {Request("issuesApplySafe", "POST", "j1", <<>>, m) :
                m \in {DefaultMinConfidence, Frac(0, 1)}}
        \cup {Request("issuesApplySafe", "GET", "j1", <<>>, DefaultMinConfidence)}
        \cup {Request("issuesReject", "POST", "j1", ids, NoConf) :
                ids \in {<<"i1">>, <<"i2", "i1">>, <<"i9">>}}
        \cup {Request("issuesReject", "POST", "", <<"i1">>, NoConf)}
  IN /\ engineIdle /\ scanIdle /\ llmIdle /\ parseIdle
     /\ pc = "review"
     /\ \E d1 \in IssuePool, d2 \in IssuePool :
          issueDocs = [id \in {"i1", "i2", "i9"} |->
                         CASE id = "i1" -> d1 [] id = "i2" -> d2 [] OTHER -> NoIssue]
     /\ rowDocs = [id \in {"r1", "r9"} |->
                     [exists |-> id = "r1", normalized |-> [cat |-> Str(<<"c">>)]]]
     /\ requests \in [{"A", "B"} -> RequestPool]
     /\ rowWrites = <<>>

\* applyIssue for the issue the request is at, one Firestore operation at a
\* time: the issue read and tested, the row read, the suggestion written
\* into the row, the issue set to accepted
applyIssue(p) ==
  LET r == requests[p]
      issueId == r.ids[r.pos]
      \* the call returns: the result recorded, the loop of the caller moves on
      returned(ok, reason, issuesAfter, rowsAfter) ==
        [r EXCEPT !.results = Append(@, [issueId |-> issueId, ok |-> ok, reason |-> reason,
                                         before |-> IF r.pc = "issue"
                                                    THEN <<issueDocs, rowDocs>> ELSE r.before,
                                         after |-> <<issuesAfter, rowsAfter>>]),
                  !.pos = @ + 1,
                  !.pc = IF r.pos = Len(r.ids) THEN "done" ELSE "issue"]
  IN /\ pc = "review"
     /\ r.kind \in {"issuesApply", "issuesApplySafe"}
     /\ CASE r.pc = "issue" ->
               LET issue == issueDocs[issueId]
               IN /\ requests' =
                       [requests EXCEPT ![p] =
                          IF ~issue.exists
                          THEN returned(FALSE, "not-found", issueDocs, rowDocs)
                          ELSE IF closed(issue)
                          THEN returned(FALSE, "already-closed", issueDocs, rowDocs)
                          ELSE [r EXCEPT !.snap = issue, !.pc = "row",
                                         !.before = <<issueDocs, rowDocs>>]]
                  /\ UNCHANGED <<issueDocs, rowDocs, rowWrites>>
          [] r.pc = "row" ->
               /\ requests' =
                    [requests EXCEPT ![p] =
                       IF ~rowDocs[r.snap.rowId].exists
                       THEN returned(FALSE, "row-not-found", issueDocs, rowDocs)
                       ELSE IF r.snap.field # "" /\ r.snap.suggestion \notin {Undef, Null}
                       THEN [r EXCEPT !.pc = "setRow"]
                       ELSE [r EXCEPT !.pc = "setIssue"]]
               /\ UNCHANGED <<issueDocs, rowDocs, rowWrites>>
          [] r.pc = "setRow" ->
               /\ rowDocs' = [rowDocs EXCEPT ![r.snap.rowId].exists = TRUE,
                                             ![r.snap.rowId].normalized[r.snap.field] =
                                               r.snap.suggestion]
               /\ rowWrites' = Append(rowWrites, [issueId |-> issueId, by |-> p,
                                                  rowId |-> r.snap.rowId])
               /\ requests' = [requests EXCEPT ![p].pc = "setIssue"]
               /\ UNCHANGED issueDocs
          [] r.pc = "setIssue" ->
               /\ issueDocs' = [issueDocs EXCEPT ![issueId].exists = TRUE,
                                                 ![issueId].status = "accepted"]
               /\ requests' = [requests EXCEPT ![p] = returned(TRUE, "", issueDocs', rowDocs)]
               /\ UNCHANGED <<rowDocs, rowWrites>>
          [] OTHER -> FALSE
     /\ UNCHANGED <<engineVars, scanVars, llmVars, parseVars, pc>>

\* issuesApply: the request refused (405, 400) or applyIssue begun on the
\* first id; alone: no other request is under way
issuesApply(p, alone) ==
  LET r == requests[p]
  IN /\ pc = "review" /\ r.kind = "issuesApply" /\ r.pc = "new"
     /\ alone => \A q \in DOMAIN requests : requests[q].pc \in {"new", "done"}
     /\ requests' =
          [requests EXCEPT ![p] =
             IF r.method # "POST" THEN [r EXCEPT !.pc = "done", !.response = 405]
             ELSE IF r.jobId = "" THEN [r EXCEPT !.pc = "done", !.response = 400]
             ELSE [r EXCEPT !.pos = 1, !.response = 200,
                            !.pc = IF r.ids = <<>> THEN "done" ELSE "issue"]]
     /\ UNCHANGED <<engineVars, scanVars, llmVars, parseVars, pc, issueDocs, rowDocs, rowWrites>>

\* issuesApplySafe: the request refused, or the open issues of at least
\* minConfidence queried and applyIssue begun on the first of them
issuesApplySafe(p, alone) ==
  LET r == requests[p]
      RECURSIVE inOrder(_)
      inOrder(ids) ==
        IF ids = <<>> THEN <<>>
        ELSE (IF /\ issueDocs[Head(ids)].exists /\ issueDocs[Head(ids)].status = "open"
                 /\ issueDocs[Head(ids)].confidence # NoConf
                 /\ FracLeq(r.minConfidence, issueDocs[Head(ids)].confidence)
              THEN <<Head(ids)>> ELSE <<>>) \o inOrder(Tail(ids))
      qs == inOrder(<<"i1", "i2", "i9">>)
  IN /\ pc = "review" /\ r.kind = "issuesApplySafe" /\ r.pc = "new"
     /\ alone => \A q \in DOMAIN requests : requests[q].pc \in {"new", "done"}
     /\ requests' =
          [requests EXCEPT ![p] =
             IF r.method # "POST" THEN [r EXCEPT !.pc = "done", !.response = 405]
             ELSE IF r.jobId = "" THEN [r EXCEPT !.pc = "done", !.response = 400]
             ELSE [r EXCEPT !.ids = qs, !.pos = 1, !.response = 200,
                            !.pc = IF qs = <<>> THEN "done" ELSE "issue"]]
     /\ UNCHANGED <<engineVars, scanVars, llmVars, parseVars, pc, issueDocs, rowDocs, rowWrites>>

\* issuesReject: the request refused, or one write of the bulk writer per id,
\* whatever the issue's status and whether or not it exists
issuesReject(p, alone) ==
  LET r == requests[p]
  IN /\ pc = "review" /\ r.kind = "issuesReject" /\ r.pc \in {"new", "rejecting"}
     /\ IF r.pc = "new"
        THEN /\ alone => \A q \in DOMAIN requests : requests[q].pc \in {"new", "done"}
             /\ requests' =
                  [requests EXCEPT ![p] =
                     IF r.method # "POST" THEN [r EXCEPT !.pc = "done", !.response = 405]
                     ELSE IF r.jobId = "" THEN [r EXCEPT !.pc = "done", !.response = 400]
                     ELSE [r EXCEPT !.pos = 1, !.response = 200,
                                    !.pc = IF r.ids = <<>> THEN "done" ELSE "rejecting"]]
             /\ UNCHANGED issueDocs
        ELSE /\ issueDocs' = [issueDocs EXCEPT ![r.ids[r.pos]].exists = TRUE,
                                              ![r.ids[r.pos]].status = "rejected"]
             /\ requests' = [requests EXCEPT ![p].pos = @ + 1,
                                             ![p].pc = IF r.pos = Len(r.ids) THEN "done"
                                                       ELSE "rejecting"]
     /\ UNCHANGED <<engineVars, scanVars, llmVars, parseVars, pc, rowDocs, rowWrites>>

\* requests served one after the other
NextReviewSequential ==
  \/ \E p \in DOMAIN requests : issuesApply(p, TRUE)
  \/ \E p \in DOMAIN requests : issuesApplySafe(p, TRUE)
  \/ \E p \in DOMAIN requests : issuesReject(p, TRUE)
  \/ \E p \in DOMAIN requests : applyIssue(p)

\* requests served by instances that run at the same time
NextReview ==
  \/ \E p \in DOMAIN requests : issuesApply(p, FALSE)
  \/ \E p \in DOMAIN requests : issuesApplySafe(p, FALSE)
  \/ \E p \in DOMAIN requests : issuesReject(p, FALSE)
  \/ \E p \in DOMAIN requests : applyIssue(p)

SpecReviewSequential == InitReview /\ [][NextReviewSequential]_vars
SpecReview == InitReview /\ [][NextReview]_vars

\* ------------------------------------------------------------------------
\* Properties of the issue review
\* ------------------------------------------------------------------------
\* the applyIssue calls that have returned: request and position
AppliedCalls ==
  {c \in (DOMAIN requests) \X (1..4) : c[2] <= Len(requests[c[1]].results)}
ResultOf(c) == requests[c[1]].results[c[2]]
\* the issue of the call, as it was when the call read it
IssueBefore(c) == ResultOf(c).before[1][ResultOf(c).issueId]
\* the call met an open issue whose row exists
Applicable(c) ==
  /\ IssueBefore(c).exists /\ IssueBefore(c).status = "open"
  /\ ResultOf(c).before[2][IssueBefore(c).rowId].exists
WritesOf(issueId) == {n \in 1..Len(rowWrites) : rowWrites[n].issueId = issueId}
RefusedLeavesAll ==
  \A c \in AppliedCalls :
    /\ ~Applicable(c) => ~ResultOf(c).ok /\ ResultOf(c).after = ResultOf(c).before
    /\ ResultOf(c).ok =>
         /\ Applicable(c)
         /\ ResultOf(c).after[1][ResultOf(c).issueId].status = "accepted"
AcceptedFromOpen ==
  \A id \in DOMAIN issueDocs :
    issueDocs'[id].status = "accepted" /\ issueDocs[id].status # "accepted"
      => issueDocs[id].exists /\ issueDocs[id].status = "open"

\* C28: applyIssue changes something only for an open issue: on an accepted
\* or rejected issue, a missing issue or an issue whose row is missing it
\* returns ok: false and leaves the issue's status and the rows as they
\* were; with the calls one after the other every issue's suggestion is
\* written into its row at most once and accepted is reached from open only.
C28_ApplyOnlyOpen ==
  /\ [](pc = "review" => RefusedLeavesAll)
  /\ [](pc = "review" => \A id \in DOMAIN issueDocs : Cardinality(WritesOf(id)) <= 1)
  /\ [][pc = "review" => AcceptedFromOpen]_vars

\* an issue was applied and its suggestion written, a second call on it was
\* refused as already closed, and a call on a missing issue was refused
C28_Witness ==
  /\ pc = "review"
  /\ \E c \in AppliedCalls, d \in AppliedCalls :
       /\ c[1] = d[1] /\ c[2] < d[2]
       /\ ResultOf(c).issueId = ResultOf(d).issueId
       /\ ResultOf(c).ok /\ Cardinality(WritesOf(ResultOf(c).issueId)) = 1
       /\ ~ResultOf(d).ok /\ ResultOf(d).reason = "already-closed"
  /\ \E c \in AppliedCalls : ResultOf(c).reason = "not-found"

\* every request has been answered
AllAnswered == \A p \in DOMAIN requests : requests[p].pc = "done"
RejectedNeverWritten ==
  AllAnswered =>
    \A id \in DOMAIN issueDocs : issueDocs[id].status = "rejected" => WritesOf(id) = {}
WrittenAtMostOnce == \A id \in DOMAIN issueDocs : Cardinality(WritesOf(id)) <= 1

\* C29 as stated: however issuesApply, issuesApplySafe and issuesReject
\* requests on the same issue interleave, an issue that ends rejected never
\* had its suggestion written into the row, and an issue's suggestion is
\* written into the row at most once.
C29_AsStated == pc = "review" => RejectedNeverWritten /\ WrittenAtMostOnce

\* ---------------------------------------------------------------------
\* parseWorker (lib/pipeline-workers.ts): a published message names a file;
\* the worker parses it, hands every record to handleRow, closes the bulk
\* writer and the export stream and sets the job to review.
\* ---------------------------------------------------------------------

\* the records of a file at most
MaxRecords == 2

\* the message and the file it names. A record is given by the number of
\* issues the engine finds in it; present: bucket, name and jobId are all
\* in the message; exists: the file is in the bucket.
InitParse ==
  /\ engineIdle /\ scanIdle /\ llmIdle /\ reviewIdle
  /\ pc = "parse"
  /\ \E present \in BOOLEAN, exists \in BOOLEAN,
        fileType \in {"csv", "tsv", "xlsx", "pdf"}, n \in 0..MaxRecords :
       \E records \in [1..n -> 0..1] :
         /\ parser = [file |-> records, source |-> <<>>, buffer |-> <<>>, idx |-> 0,
                      needReadable |-> FALSE, ended |-> FALSE]
         /\ handlers = <<>>
         /\ writer = [closed |-> FALSE, sets |-> <<>>, refused |-> <<>>,
                      ended |-> FALSE, lines |-> <<>>]
         /\ worker = [pc |-> "start", present |-> present, exists |-> exists,
                      fileType |-> fileType, rowCount |-> 0, deterministicIssues |-> 0,
                      job |-> [status |-> "queued"]]

\* a call of the 'readable' listener or of the loop of parseXLSX, about to read
Handler == [pc |-> "read", idx |-> 0, record |-> 0]

\* parseWorker itself, from one await to the next. After the dispatch it
\* waits for parseCSV, which is for the pipeline to finish: the parser has
\* taken and flushed all its input, whatever has been read from it. For
\* parseXLSX it waits for the loop over the rows of the sheet.
parseWorker ==
  /\ pc = "parse"
  /\ LET at == worker.pc
         csv == worker.fileType \in {"csv", "tsv"}
         failed(message) ==
           [worker EXCEPT !.pc = "threw", !.job = [status |-> "error", error |-> message]]
     IN /\ CASE at = "start" /\ ~worker.present ->
                  /\ worker' = [worker EXCEPT !.pc = "returned"]
                  /\ UNCHANGED <<parser, handlers, writer>>
             [] at = "start" /\ worker.present /\ ~worker.exists ->
                  /\ worker' = failed("File not found")
                  /\ UNCHANGED <<parser, handlers, writer>>
             [] at = "start" /\ worker.present /\ worker.exists /\ csv ->
                  /\ worker' = [worker EXCEPT !.pc = "pipeline", !.job = [status |-> "validating"]]
                  /\ parser' = [parser EXCEPT !.source = parser.file, !.needReadable = TRUE]
                  /\ UNCHANGED <<handlers, writer>>
             [] at = "start" /\ worker.present /\ worker.exists /\ worker.fileType = "xlsx" ->
                  /\ worker' = [worker EXCEPT !.pc = "loop", !.job = [status |-> "validating"]]
                  /\ parser' = [parser EXCEPT !.buffer = parser.file, !.ended = TRUE]
                  /\ handlers' = <<Handler>>
                  /\ UNCHANGED writer
             [] at = "start" /\ worker.present /\ worker.exists
                  /\ ~csv /\ worker.fileType # "xlsx" ->
                  /\ worker' = failed("Unsupported file type")
                  /\ UNCHANGED <<parser, handlers, writer>>
             [] at = "pipeline" ->
                  /\ parser.source = <<>> /\ parser.ended
                  /\ worker' = [worker EXCEPT !.pc = "close"]
                  /\ UNCHANGED <<parser, handlers, writer>>
             [] at = "loop" ->
                  /\ handlers[1].pc = "ended"
                  /\ worker' = [worker EXCEPT !.pc = "close"]
                  /\ UNCHANGED <<parser, handlers, writer>>
             [] at = "close" ->
                  /\ writer' = [writer EXCEPT !.closed = TRUE]
                  /\ worker' = [worker EXCEPT !.pc = "end"]
                  /\ UNCHANGED <<parser, handlers>>
             [] at = "end" ->
                  /\ writer' = [writer EXCEPT !.ended = TRUE]
                  /\ worker' = [worker EXCEPT !.pc = "update"]
                  /\ UNCHANGED <<parser, handlers>>
             [] at = "update" ->
                  /\ worker' = [worker EXCEPT !.pc = "done",
                                  !.job = [status |-> "review", rowCount |-> worker.rowCount,
                                           deterministicIssues |-> worker.deterministicIssues]]
                  /\ UNCHANGED <<parser, handlers, writer>>
             [] OTHER -> FALSE
        /\ UNCHANGED <<engineVars, scanVars, llmVars, reviewVars, pc>>

\* the pipeline feeds the parser: the next record becomes readable, and at
\* the end of the input the parser ends. 'readable' is emitted, and the
\* listener called, when a record arrives after the buffer was read empty,
\* and once at the end.
parseCSV ==
  /\ pc = "parse" /\ worker.pc = "pipeline" /\ ~parser.ended
  /\ IF parser.source # <<>>
       THEN /\ parser' = [parser EXCEPT !.source = Tail(@),
                            !.buffer = Append(@, Head(parser.source)),
                            !.needReadable = FALSE]
            /\ handlers' = IF parser.needReadable THEN Append(handlers, Handler) ELSE handlers
       ELSE /\ parser' = [parser EXCEPT !.ended = TRUE, !.needReadable = FALSE]
            /\ handlers' = Append(handlers, Handler)
  /\ UNCHANGED <<engineVars, scanVars, llmVars, reviewVars, pc, writer, worker>>

\* the listener's loop: parser.read(), then onRow(record, idx++) up to its
\* await of engine.applyRow; without a record the loop is over
onReadable(h) ==
  /\ pc = "parse" /\ handlers[h].pc = "read"
  /\ IF parser.buffer = <<>>
       THEN /\ handlers' = [handlers EXCEPT ![h].pc = "ended"]
            /\ parser' = [parser EXCEPT !.needReadable = ~parser.ended]
       ELSE /\ handlers' = [handlers EXCEPT ![h] =
                 [pc |-> "applyRow", idx |-> parser.idx, record |-> Head(parser.buffer)]]
            /\ parser' = [parser EXCEPT !.buffer = Tail(@), !.idx = @ + 1,
                            !.needReadable = @ \/ (Tail(parser.buffer) = <<>> /\ ~parser.ended)]
  /\ UNCHANGED <<engineVars, scanVars, llmVars, reviewVars, pc, writer, worker>>

\* handleRow once engine.applyRow has answered: the row and its issues to the
\* bulk writer, the line to the export stream, the counters. A closed bulk
\* writer refuses the first set by throwing, which ends the listener's call.
handleRow(h) ==
  /\ pc = "parse" /\ handlers[h].pc = "applyRow"
  /\ LET rowId == handlers[h].idx
         found == handlers[h].record
         written == <<[doc |-> "row", rowId |-> rowId]>>
                      \o [k \in 1..found |-> [doc |-> "issue", rowId |-> rowId]]
     IN IF writer.closed
          THEN /\ writer' = [writer EXCEPT !.refused = Append(@, written[1])]
               /\ handlers' = [handlers EXCEPT ![h].pc = "threw"]
               /\ UNCHANGED worker
          ELSE /\ writer' = [writer EXCEPT !.sets = @ \o written, !.lines = Append(@, rowId)]
               /\ worker' = [worker EXCEPT !.rowCount = @ + 1,
                               !.deterministicIssues = @ + found]
               /\ handlers' = [handlers EXCEPT ![h].pc = "read"]
  /\ UNCHANGED <<engineVars, scanVars, llmVars, reviewVars, pc, parser>>

NextParse ==
  \/ parseWorker
  \/ parseCSV
  \/ \E h \in DOMAIN handlers : onReadable(h)
  \/ \E h \in DOMAIN handlers : handleRow(h)

SpecParse == InitParse /\ [][NextParse]_vars

\* the records of the file have all been through handleRow
HandledAll == \A k \in 1..Len(parser.file) : k - 1 \in Range(writer.lines)
ClosedAfterRows == (writer.closed \/ writer.ended \/ worker.job.status = "review") => HandledAll
NoWriteAfterClose == writer.refused = <<>>
RowCountRecorded ==
  worker.job.status = "review" => worker.job.rowCount = Len(parser.file)

\* C30 as stated: for a CSV or TSV file parseWorker closes the bulk writer and
\* the export stream and sets the job to review only after handleRow has
\* completed for every record of the file; no write is attempted after
\* writer.close(); the rowCount recorded is the number of records, however
\* the calls of the 'readable' listener interleave with the pipeline's end.
C30_AsStated ==
  pc = "parse" /\ worker.fileType \in {"csv", "tsv"} =>
    ClosedAfterRows /\ NoWriteAfterClose /\ RowCountRecorded

\* the same of a sheet, whose rows parseXLSX hands over in a loop it awaits
AwaitedLoopComplete ==
  pc = "parse" /\ worker.fileType = "xlsx" =>
    ClosedAfterRows /\ NoWriteAfterClose /\ RowCountRecorded

====
